---------------------------- MODULE Spec2Model ----------------------------
(***************************************************************************)
(* Routing and failover engine of the gateway (backend/router_engine.py).  *)
(*                                                                         *)
(* Time is counted in whole seconds.  A failure score is counted in units  *)
(* of 1/ScoreUnit point, so that the decay of one second at the default    *)
(* decay rate (0.05 point per minute) is exactly one unit.                 *)
(*                                                                         *)
(* A Python string that the code searches with `in` is modelled by the set *)
(* of the searched-for fragments that occur in it.                         *)
(***************************************************************************)
EXTENDS Integers, Sequences, FiniteSets, TLC

VARIABLES
    config,               \* config_manager._config, the live configuration
    model_stats,          \* RouterEngine._model_stats (HealthStore)
    stats_file,           \* content of model_stats.json
    now,                  \* time.time()
    upstream,             \* how each upstream endpoint behaves, once observed
    requests,             \* number of requests received so far
    pc,                   \* position of the request in route_request
    req_config,           \* route_request: config (line 576)
    level,                \* route_request: level
    models,               \* route_request: models (after the strategy)
    max_rounds,           \* route_request: max_rounds
    round_idx,            \* route_request: round_idx
    pos,                  \* route_request: position of the inner for loop
    excluded_models,      \* route_request: excluded_models
    round_failed_models,  \* route_request: round_failed_models
    retry_count,          \* route_request: retry_count
    attempt_errors,       \* route_request: attempt_errors
    trace_events,         \* route_request: trace_events
    start_time,           \* route_request: start_time
    call_start_time,      \* route_request: call_start_time
    attempt,              \* the attempt in flight: entry, target, outcome
    request,              \* the request being handled and the router's answer to it
    ops,                  \* number of HealthStore operations made from outside a request
    stats_file_torn,      \* model_stats.json was cut short by a crash in the middle of a save
    stream,               \* _call_upstream reading one streamed body: chunks left, buffer, content
    payload,              \* _call_upstream building one outbound payload
    anthropic_messages,   \* _convert_to_anthropic_messages converting one message list
    trace_logger,         \* TraceLogger: log_buffer, active_connections, lines sent
    inflight,             \* the route_request coroutines the event loop interleaves
    result,               \* what the caller of route_request receives
    visits                \* observer: the (round, entry) pairs the loop visited

vars == <<config, model_stats, stats_file, now, upstream, requests, pc,
          req_config, level, models, max_rounds, round_idx, pos,
          excluded_models, round_failed_models, retry_count, attempt_errors,
          trace_events, start_time, call_start_time, attempt, result, visits,
          request, ops, stats_file_torn, stream, payload, anthropic_messages,
          trace_logger, inflight>>

\* the state of the failover engine and of the HealthStore
engine_vars ==
    <<config, model_stats, stats_file, now, upstream, requests, pc, req_config, level,
      models, max_rounds, round_idx, pos, excluded_models, round_failed_models,
      retry_count, attempt_errors, trace_events, start_time, call_start_time, attempt,
      result, visits, request, ops, stats_file_torn>>

\* the state of the components that are followed one call at a time
call_vars == <<stream, payload, anthropic_messages, trace_logger, inflight>>

-----------------------------------------------------------------------------
(* Bounds of the model *)

MaxModels == 2      \* longest model list of a tier
MaxRounds == 2      \* largest retries.rounds[tier]
MaxRequests == 2    \* requests handled one after the other
LateBy == 1         \* seconds by which a late upstream misses a budget

(* Program constants *)

ScoreUnit == 1200          \* units per point: 0.05 point/minute = 1 unit/second
DecayThresholdSec == 6     \* elapsed_min > 0.1
SuccessBonus == 2400       \* 2.0 points
PenaltyTimeout == 600      \* 0.5
PenaltyDefault == 1200     \* 1.0
PenaltyRateLimit == 12000  \* 10.0
PenaltyAuth == 60000       \* 50.0
PenaltyKeyword == 12000    \* 10.0
CooldownRateLimit == 60
CooldownAuth == 300
CooldownKeyword == 60
ConnectMsT1 == 5000
RouterTimeoutSec == 5
GenerationMsT1 == 300000

Tiers == {"t1", "t2", "t3"}

Max(a, b) == IF a >= b THEN a ELSE b

-----------------------------------------------------------------------------
(* Python dicts: a function whose domain is the set of keys present *)

DictGet(d, k, default) == IF k \in DOMAIN d THEN d[k] ELSE default

\* d[k] = v (d and v are evaluated once)
DictPut(d, k, v) ==
    CHOOSE r \in {[x \in (DOMAIN p[1]) \cup {k} |-> IF x = k THEN p[2] ELSE p[1][x]] :
                    p \in {<<d, v>>}} : TRUE

EmptyDict == [x \in {} |-> 0]

SeqSet(s) == {s[i] : i \in 1..Len(s)}

-----------------------------------------------------------------------------
(* Model entries and the configuration *)

\* An entry "provider/model" has a prefix; a bare model id has prefix "".
Gpt == [prefix |-> "", model |-> "gpt"]
Claude == [prefix |-> "anth", model |-> "claude"]
Entries == {Gpt, Claude}

ModelLists == UNION {[1..n -> Entries] : n \in 0..MaxModels}

DefaultStatusCodes == {429, 500, 502, 503, 504}
DefaultKeywords == {"rate limit", "quota exceeded", "overloaded", "timeout", "try again"}

\* retries.conditions as shipped (RetryConfig)
DefaultConditions ==
    [status_codes |-> DefaultStatusCodes, error_keywords |-> DefaultKeywords,
     retry_on_empty |-> TRUE]

\* retries.conditions as an administrator may set them: the client errors are
\* retry codes, 503 is not, an empty reply is accepted
AdminConditions ==
    [status_codes |-> {401, 403, 404, 429, 500}, error_keywords |-> DefaultKeywords,
     retry_on_empty |-> FALSE]

AppConfig(list, rounds, cond, strategy) ==
    [ models |-> [t1 |-> list, t2 |-> << >>, t3 |-> << >>],
      strategies |-> [t \in Tiers |-> strategy],
      connect |-> [t1 |-> ConnectMsT1, t2 |-> 15000, t3 |-> 30000],
      generation |-> [t \in Tiers |-> GenerationMsT1],
      rounds |-> [t \in Tiers |-> rounds],
      conditions |-> cond,
      custom |-> [p \in {"anth"} |-> [protocol |-> "v1-messages"]],
      map |-> EmptyDict,
      router_enabled |-> FALSE,
      decay_rate |-> 1 ]

\* the configurations of the model: the shipped conditions with the shipped
\* strategy, and the administrator's conditions with the adaptive strategy
Configs ==
    { AppConfig(l, r, DefaultConditions, "sequential") :
        l \in ModelLists, r \in 1..MaxRounds }
    \cup
    { AppConfig(l, r, AdminConditions, "adaptive") :
        l \in ModelLists, r \in 1..MaxRounds }

AllModels(cfg) ==
    SeqSet(cfg.models.t1) \cup SeqSet(cfg.models.t2) \cup SeqSet(cfg.models.t3)


-----------------------------------------------------------------------------
(* HealthStore *)

\* The entry startup() pre-populates (it has no failure_score and no cooldown_until).
StartupEntry(t) == [failures |-> 0, success |-> 0, last_updated |-> t]

\* The entry _get_model_stats creates for an unknown model id.
FreshEntry(t) ==
    [failures |-> 0, success |-> 0, failure_score |-> 0, cooldown_until |-> 0,
     last_updated |-> t]

\* int(100.0 / (1.0 + fs * 0.2)), fs in units of 1/ScoreUnit
HealthScore(fs) == (100 * 5 * ScoreUnit) \div (5 * ScoreUnit + fs)

\* _get_model_stats: creates the entry, migrates a legacy entry and stores the
\* derived health_score in it; the result is the store after the call.
\* (Here and in the operators below the store an operator works on is bound
\* once, as the one dict object the method works on.)
GetModelStats(store, m, t) ==
  CHOOSE after \in {
    LET s0 == IF m \in DOMAIN self_stats THEN self_stats[m] ELSE FreshEntry(t)
        s1 == IF "failure_score" \in DOMAIN s0 THEN s0
              ELSE DictPut(DictPut(s0, "failure_score",
                                   DictGet(s0, "failures", 0) * ScoreUnit),
                           "failures", DictGet(s0, "failures", 0))
        s2 == IF "last_updated" \in DOMAIN s1 THEN s1 ELSE DictPut(s1, "last_updated", t)
        s3 == DictPut(s2, "health_score",
                      IF DictGet(s2, "cooldown_until", 0) > t THEN 0
                      ELSE HealthScore(DictGet(s2, "failure_score", 0)))
    IN  DictPut(self_stats, m, s3)
    : self_stats \in {store} } : TRUE

\* stats.get("cooldown_until", 0) > time.time()
CoolingDown(store, m, t) ==
    m \in DOMAIN store /\ DictGet(store[m], "cooldown_until", 0) > t

\* _refresh_stats without the floor at zero
RefreshStatsUnclamped(store, m, t, cfg) ==
  CHOOSE after \in {
    LET s == st[m]
        elapsed == t - DictGet(s, "last_updated", t)
        decayed == IF s["failure_score"] > 0
                   THEN DictPut(s, "failure_score",
                                s["failure_score"] - elapsed * cfg.decay_rate)
                   ELSE s
    IN  IF elapsed > DecayThresholdSec
        THEN DictPut(st, m, DictPut(decayed, "last_updated", t))
        ELSE st
    : st \in {GetModelStats(store, m, t)} } : TRUE

\* _refresh_stats: time decay of failure_score, read from the live configuration
RefreshStats(store, m, t, cfg) ==
  CHOOSE after \in {
    LET s == st[m]
        elapsed == t - DictGet(s, "last_updated", t)
        decayed == IF s["failure_score"] > 0
                   THEN DictPut(s, "failure_score",
                                Max(0, s["failure_score"] - elapsed * cfg.decay_rate))
                   ELSE s
    IN  IF elapsed > DecayThresholdSec
        THEN DictPut(st, m, DictPut(decayed, "last_updated", t))
        ELSE st
    : st \in {GetModelStats(store, m, t)} } : TRUE

\* stats["success"] += 1 and stats["failures"] += 1 raise KeyError on an entry
\* without the counter.
RecordSuccessRaises(store, m) == m \in DOMAIN store /\ "success" \notin DOMAIN store[m]

RecordFailureRaises(store, m) == m \in DOMAIN store /\ "failures" \notin DOMAIN store[m]

\* _record_success taking the bonus off without the floor at zero
RecordSuccessUnfloored(store, m, t, cfg) ==
  CHOOSE after \in {
    LET s == st[m]
        s1 == DictPut(DictPut(s, "success", s["success"] + 1), "cooldown_until", 0)
        s2 == IF s1["failure_score"] > 0
              THEN DictPut(s1, "failure_score", s1["failure_score"] - SuccessBonus)
              ELSE s1
    IN  DictPut(st, m, DictPut(s2, "last_updated", t))
    : st \in {GetModelStats(RefreshStats(store, m, t, cfg), m, t)} } : TRUE

\* _record_success clearing the cooldown of every entry, not only of m
RecordSuccessClearsAll(store, m, t, cfg) ==
  CHOOSE after \in {
    LET s == st[m]
        s1 == DictPut(s, "success", s["success"] + 1)
        s2 == IF s1["failure_score"] > 0
              THEN DictPut(s1, "failure_score", Max(0, s1["failure_score"] - SuccessBonus))
              ELSE s1
        done == DictPut(st, m, DictPut(s2, "last_updated", t))
    IN  [k \in DOMAIN done |-> DictPut(done[k], "cooldown_until", 0)]
    : st \in {GetModelStats(RefreshStats(store, m, t, cfg), m, t)} } : TRUE

\* _record_success, up to _save_stats
RecordSuccess(store, m, t, cfg) ==
  CHOOSE after \in {
    LET s == st[m]
        s1 == DictPut(DictPut(s, "success", s["success"] + 1), "cooldown_until", 0)
        s2 == IF s1["failure_score"] > 0
              THEN DictPut(s1, "failure_score", Max(0, s1["failure_score"] - SuccessBonus))
              ELSE s1
    IN  DictPut(st, m, DictPut(s2, "last_updated", t))
    : st \in {GetModelStats(RefreshStats(store, m, t, cfg), m, t)} } : TRUE

\* _record_failure, up to _save_stats
RecordFailure(store, m, t, cfg, penalty, cooldown_seconds) ==
  CHOOSE after \in {
    LET s == st[m]
        s1 == DictPut(DictPut(s, "failures", s["failures"] + 1),
                      "failure_score", s["failure_score"] + penalty)
        s2 == IF cooldown_seconds > 0
              THEN DictPut(s1, "cooldown_until", t + cooldown_seconds)
              ELSE s1
    IN  DictPut(st, m, DictPut(s2, "last_updated", t))
    : st \in {GetModelStats(RefreshStats(store, m, t, cfg), m, t)} } : TRUE

\* _load_stats: the store of a new process; json.load of a file cut short
\* raises and leaves the empty store. json.dump and json.load give back the
\* keys and the numbers that were written.
LoadStats(file, torn) == IF torn THEN EmptyDict ELSE file

\* startup() after _load_stats: every configured model not in the file gets
\* an entry
Startup(loaded, cfg, t) ==
    [m \in (DOMAIN loaded) \cup AllModels(cfg) |->
        IF m \in DOMAIN loaded THEN loaded[m] ELSE StartupEntry(t)]

\* startup(): no stats file yet
StartupStats(cfg, t) == Startup(EmptyDict, cfg, t)

\* The entry cleanup_stats creates for a newly configured model.
CleanupEntry(t) == [failures |-> 0, success |-> 0, failure_score |-> 0, last_updated |-> t]

\* cleanup_stats, up to _save_stats
CleanupStats(store, cfg, t) ==
    [m \in AllModels(cfg) |-> IF m \in DOMAIN store THEN store[m] ELSE CleanupEntry(t)]

RECURSIVE RefreshKeys(_, _, _, _)
\* get_all_stats: _refresh_stats on every key of the store
RefreshKeys(store, keys, t, cfg) ==
    IF keys = {} THEN store
    ELSE LET m == CHOOSE k \in keys : TRUE
         IN  RefreshKeys(RefreshStats(store, m, t, cfg), keys \ {m}, t, cfg)

GetAllStats(store, t, cfg) == RefreshKeys(store, DOMAIN store, t, cfg)

-----------------------------------------------------------------------------
(* Provider resolution (route_request, "Resolve Provider") *)

DefaultTarget(entry) == [target |-> entry, protocol |-> "openai", label |-> ""]

ResolveProvider(cfg, entry) ==
    IF entry.prefix # ""
    THEN IF entry.prefix \in DOMAIN cfg.custom
         THEN [target |-> [prefix |-> "", model |-> entry.model],
               protocol |-> cfg.custom[entry.prefix].protocol,
               label |-> entry.prefix]
         ELSE DefaultTarget(entry)
    ELSE IF entry \in DOMAIN cfg.map /\ cfg.map[entry] \in DOMAIN cfg.custom
         THEN [target |-> entry,
               protocol |-> cfg.custom[cfg.map[entry]].protocol,
               label |-> cfg.map[entry]]
         ELSE DefaultTarget(entry)

\* display_model_name
DisplayName(r) == [label |-> r.label, model |-> r.target]

-----------------------------------------------------------------------------
(* Upstream endpoints *)

\* conn:   "ok", "slow" (no connection within the connect timeout), "refused"
\* hdr:    "prompt", "late" (LateBy after the TTFT budget), "never"
\* status: the HTTP status of the reply
\* body:   of an error reply: "plain", "keyword" (holds the configured keyword
\*         "quota exceeded"), "quote429" (the text "upstream returned 429");
\*         of a 200 reply: "text", "tools", "empty", and for a messages
\*         endpoint also "malformed" (chat-completion shaped, choices[0] without
\*         message, no usage) and "nonjson"
\* pace:   "fast", "trickle" (last byte LateBy after the generation budget, no
\*         gap as long as the read timeout), "stall" (a gap longer than the
\*         read timeout)
Beh(conn, hdr, status, body, pace) ==
    [conn |-> conn, hdr |-> hdr, status |-> status, body |-> body, pace |-> pace]

ErrorReplies ==
    {Beh("ok", "prompt", c, "plain", "fast") : c \in {400, 401, 403, 404, 429, 500, 503}}
    \cup {Beh("ok", "prompt", c, "keyword", "fast") : c \in {400, 401, 500}}
    \cup {Beh("ok", "prompt", 500, "quote429", "fast")}

OpenAIBehaviours ==
    { Beh("refused", "never", 0, "none", "fast"),
      Beh("slow", "never", 0, "none", "fast"),
      Beh("ok", "late", 200, "text", "fast"),
      Beh("ok", "prompt", 200, "text", "fast"),
      Beh("ok", "prompt", 200, "tools", "fast"),
      Beh("ok", "prompt", 200, "empty", "fast"),
      Beh("ok", "prompt", 200, "text", "trickle"),
      Beh("ok", "prompt", 200, "text", "stall") }
    \cup ErrorReplies

MessagesBehaviours ==
    { Beh("slow", "never", 0, "none", "fast"),
      Beh("ok", "never", 0, "none", "fast"),
      Beh("ok", "late", 200, "text", "fast"),
      Beh("ok", "prompt", 200, "text", "fast"),
      Beh("ok", "prompt", 200, "empty", "fast"),
      Beh("ok", "prompt", 200, "malformed", "fast"),
      Beh("ok", "prompt", 200, "nonjson", "fast"),
      Beh("ok", "prompt", 200, "text", "trickle"),
      Beh("ok", "prompt", 429, "plain", "fast"),
      Beh("ok", "prompt", 401, "plain", "fast"),
      Beh("ok", "prompt", 400, "keyword", "fast") }

Behaviours(protocol) ==
    IF protocol = "v1-messages" THEN MessagesBehaviours ELSE OpenAIBehaviours

Unobserved == [conn |-> "unobserved"]

\* the configured keywords a reply body holds (lower-cased)
BodyKeywords(body) == IF body = "keyword" THEN {"quota exceeded"} ELSE {}

\* the fragments the orchestrator searches for that a reply body holds
BodyFragments(body) == IF body = "quote429" THEN {"429"} ELSE {}

-----------------------------------------------------------------------------
(* Exception messages: str(e) *)

\* f"{response.status_code}": the searched-for fragments equal to the code
CodeDigits(code) ==
    IF code \in {401, 403, 404, 429, 503}
    THEN {CASE code = 401 -> "401" [] code = 403 -> "403" [] code = 404 -> "404"
            [] code = 429 -> "429" [] code = 503 -> "503"}
    ELSE {}

Msg(prefix, code, body) == [prefix |-> prefix, code |-> code, body |-> body]

MsgTTFT == Msg("TTFT Timeout (Headers) > ", 0, "none")
MsgTotalRead == Msg("Total Timeout (Read): Read timeout from upstream", 0, "none")
MsgConnect == Msg("Connect Timeout: Connect timeout to upstream", 0, "none")
MsgEmpty == Msg("Empty Response: Upstream returned empty content and no tool calls", 0, "none")
MsgConnectError == Msg("All connection attempts failed", 0, "none")
MsgJSONDecode == Msg("Expecting value: line 1 column 1 (char 0)", 0, "none")
MsgKeyError == Msg("'message'", 0, "none")
MsgStatusCode(code, body) == Msg("Status Code Error: ", code, body)
MsgKeyword(body) == Msg("Error Keyword Match: ", 0, body)
MsgUpstream(code, body) == Msg("Upstream Error: ", code, body)
MsgUpstreamRetryable(code, body) == Msg("Upstream Error (Retryable): ", code, body)

\* the searched-for fragments in the fixed text of a message
PrefixFragments(prefix) ==
    CASE prefix = "TTFT Timeout (Headers) > " -> {"TTFT Timeout", "Timeout"}
      [] prefix = "Total Timeout (Read): Read timeout from upstream"
            -> {"Total Timeout", "Timeout", ":"}
      [] prefix = "Connect Timeout: Connect timeout to upstream"
            -> {"Connect Timeout", "Timeout", ":"}
      [] prefix = "Empty Response: Upstream returned empty content and no tool calls"
            -> {"Empty Response", ":"}
      [] prefix = "Status Code Error: " -> {"Status Code Error", ":"}
      [] prefix = "Error Keyword Match: " -> {"Error Keyword Match", ":"}
      [] prefix = "Upstream Error: " -> {"Upstream Error", ":"}
      [] prefix = "Upstream Error (Retryable): " -> {"Upstream Error", ":"}
      [] prefix = "Expecting value: line 1 column 1 (char 0)" -> {":"}
      [] OTHER -> {}

\* fragment in error_msg
Contains(msg, fragment) ==
    fragment \in PrefixFragments(msg.prefix) \cup CodeDigits(msg.code)
                 \cup BodyFragments(msg.body)

\* fragment in error_msg.split(':')[1]: the code and the body (no body of the
\* model holds a colon)
CodePartContains(msg, fragment) ==
    fragment \in CodeDigits(msg.code) \cup BodyFragments(msg.body)

\* code_part.strip().startswith("5")
CodePartStartsWith5(msg) == msg.code \in 500..599

-----------------------------------------------------------------------------
(* _call_upstream: one attempt *)

\* the aggregated response: content "" stands for None
Resp(content, tool_calls, usage, choices) ==
    [content |-> content, tool_calls |-> tool_calls, usage |-> usage, choices |-> choices]

NoResp == Resp("", 0, FALSE, "absent")

NoMsg == Msg("", 0, "none")

\* how an attempt ends: the trace callbacks it made (stage, time), when it
\* ended, the response it returned or the exception it raised, and the stream
\* context it leaves: "none" (no context was entered), "entered" (__aenter__
\* gave the response and no __aexit__ ran), "exited"
Returned(resp, events, end) ==
    [ok |-> TRUE, resp |-> resp, err |-> NoMsg, events |-> events, end |-> end,
     ctx |-> "none"]

Raised(err, events, end) ==
    [ok |-> FALSE, resp |-> NoResp, err |-> err, events |-> events, end |-> end,
     ctx |-> "none"]

\* lines 1139-1308: the try statement around the body of the entered context.
\* An exception reaches the except clause, which calls ctx.__aexit__ and
\* raises again; the else clause runs only when the suite ends without a
\* return, and the suite ends with "return final_response" (line 1301)
LeaveStreamContext(o) ==
    [o EXCEPT !.ctx = IF o.ok THEN "entered" ELSE "exited"]

Ev(stage, at) == [stage |-> stage, at |-> at]

\* seconds from dispatch to the response headers; -1: they never come
HeaderDelay(b, timeout_sec) ==
    CASE b.hdr = "prompt" -> 0
      [] b.hdr = "late" -> timeout_sec + LateBy
      [] OTHER -> -1

\* the non-200 branch with the keyword check before the status code check
StatusFailureKeywordFirst(b, cond) ==
    LET keyword_match == (BodyKeywords(b.body) \cap cond.error_keywords) # {}
        by_code == b.status \in cond.status_codes
    IN  IF by_code \/ keyword_match
        THEN IF keyword_match THEN MsgKeyword(b.body) ELSE MsgStatusCode(b.status, b.body)
        ELSE MsgUpstream(b.status, b.body)

\* the non-200 branch of the openai path (status code first, then keywords)
StatusFailure(b, cond) ==
    LET by_code == b.status \in cond.status_codes
        keyword_match == ~by_code /\ (BodyKeywords(b.body) \cap cond.error_keywords) # {}
    IN  IF by_code \/ keyword_match
        THEN IF keyword_match THEN MsgKeyword(b.body) ELSE MsgStatusCode(b.status, b.body)
        ELSE MsgUpstream(b.status, b.body)

\* the non-200 branch of the v1-messages path
MessagesStatusFailure(b, cond) ==
    LET by_code == b.status \in cond.status_codes
        keyword_match == ~by_code /\ (BodyKeywords(b.body) \cap cond.error_keywords) # {}
    IN  IF by_code \/ keyword_match
        THEN MsgUpstreamRetryable(b.status, b.body)
        ELSE MsgUpstream(b.status, b.body)

\* asyncio.wait_for(ctx.__aenter__(), timeout=timeout_sec): the header wait is
\* cut at the TTFT budget
HeaderWaitTimesOut(delay, timeout_sec) == delay < 0 \/ delay > timeout_sec

\* the stream loop of the openai path: aggregation of a 200 reply
AggregateStream(b, cond, t0, th, stream_timeout) ==
    LET first == <<Ev("FIRST_TOKEN", th)>>
        end == IF b.pace = "trickle" THEN t0 + stream_timeout + LateBy ELSE th
        content == IF b.body = "text" THEN "hi" ELSE ""
        tool_calls == IF b.body = "tools" THEN 1 ELSE 0
    IN  IF b.pace = "stall"
        THEN {Raised(MsgTotalRead, first, th + stream_timeout)}
        ELSE IF content = "" /\ tool_calls = 0 /\ cond.retry_on_empty
             THEN {Raised(MsgEmpty, first, end)}
             ELSE {Returned(Resp(content, tool_calls, TRUE, "ok"),
                            first \o <<Ev("FULL_RESPONSE", end)>>, end)}

\* protocol "openai": the possible ends of the attempt dispatched at t0
CallOpenAI(b, cond, t0, timeout_sec, stream_timeout) ==
    LET delay == HeaderDelay(b, timeout_sec)
    IN  CASE b.conn = "refused" -> {Raised(MsgConnectError, << >>, t0)}
          [] b.conn = "slow" ->
                \* httpx's connect timeout and wait_for expire together
                {Raised(MsgConnect, << >>, t0 + timeout_sec),
                 Raised(MsgTTFT, << >>, t0 + timeout_sec)}
          [] OTHER ->
                IF HeaderWaitTimesOut(delay, timeout_sec)
                THEN {Raised(MsgTTFT, << >>, t0 + timeout_sec)}
                ELSE IF b.status # 200
                     THEN {LeaveStreamContext(Raised(StatusFailure(b, cond),
                               <<Ev("FIRST_TOKEN", t0 + delay)>>, t0 + delay))}
                     ELSE {LeaveStreamContext(o) :
                              o \in AggregateStream(b, cond, t0, t0 + delay, stream_timeout)}

\* the 200 branch of the v1-messages path
MessagesReply(b, ta) ==
    LET first == <<Ev("FIRST_TOKEN", ta)>>
        full == first \o <<Ev("FULL_RESPONSE", ta)>>
    IN  CASE b.body = "nonjson" -> Raised(MsgJSONDecode, first, ta)
          [] b.body = "malformed" -> Returned(Resp("", 0, FALSE, "malformed"), full, ta)
          [] b.body = "text" -> Returned(Resp("hi", 0, TRUE, "ok"), full, ta)
          [] b.body = "tools" -> Returned(Resp("", 1, TRUE, "ok"), full, ta)
          [] OTHER -> Returned(Resp("", 0, TRUE, "ok"), full, ta)

\* protocol "v1-messages": client.post with httpx's timeouts only
CallMessages(b, cond, t0, timeout_sec, stream_timeout) ==
    LET delay == HeaderDelay(b, timeout_sec)
        ta == IF b.pace = "trickle" THEN t0 + stream_timeout + LateBy ELSE t0 + delay
    IN  CASE b.conn = "refused" -> {Raised(MsgConnectError, << >>, t0)}
          [] b.conn = "slow" -> {Raised(MsgConnect, << >>, t0 + timeout_sec)}
          [] OTHER ->
                IF delay < 0 \/ delay > stream_timeout
                THEN {Raised(MsgTotalRead, << >>, t0 + stream_timeout)}
                ELSE IF b.status # 200
                     THEN {Raised(MessagesStatusFailure(b, cond),
                                  <<Ev("FIRST_TOKEN", ta)>>, ta)}
                     ELSE {MessagesReply(b, ta)}

CallUpstream(protocol, b, cond, t0, timeout_ms, stream_timeout_ms) ==
    IF protocol = "v1-messages"
    THEN CallMessages(b, cond, t0, timeout_ms \div 1000, stream_timeout_ms \div 1000)
    ELSE CallOpenAI(b, cond, t0, timeout_ms \div 1000, stream_timeout_ms \div 1000)

-----------------------------------------------------------------------------
(* route_request: the except block *)

\* reason strings of MODEL_FAIL (the source's are Chinese; glossed here)
ReasonTTFT == "over the first-token time limit"
ReasonTotal == "over the total time limit"
ReasonStatus == "error status code"
ReasonKeyword == "error keyword"
ReasonEmpty == "empty reply"
ReasonConnect == "connect timeout"
ReasonUpstream == "upstream error"

Verdict(reason, penalty, cooldown) ==
    [reason |-> reason, penalty |-> penalty, cooldown |-> cooldown]

\* penalty and cooldown of a "Status Code Error", by its code_part
StatusCodeVerdict(msg) ==
    IF ~Contains(msg, ":") THEN Verdict(ReasonStatus, PenaltyDefault, 0)
    ELSE IF CodePartContains(msg, "429")
         THEN Verdict(ReasonStatus, PenaltyRateLimit, CooldownRateLimit)
         ELSE IF CodePartContains(msg, "401") \/ CodePartContains(msg, "403")
              THEN Verdict(ReasonStatus, PenaltyAuth, CooldownAuth)
              ELSE Verdict(ReasonStatus, PenaltyDefault, 0)

\* reason, penalty and cooldown from str(e)
ClassifyFailure(msg) ==
    IF Contains(msg, "TTFT Timeout") THEN Verdict(ReasonTTFT, PenaltyTimeout, 0)
    ELSE IF Contains(msg, "Total Timeout") THEN Verdict(ReasonTotal, PenaltyTimeout, 0)
    ELSE IF Contains(msg, "Status Code Error") THEN StatusCodeVerdict(msg)
    ELSE IF Contains(msg, "Error Keyword Match")
         THEN Verdict(ReasonKeyword, PenaltyKeyword, CooldownKeyword)
    ELSE IF Contains(msg, "Empty Response") THEN Verdict(ReasonEmpty, PenaltyDefault, 0)
    ELSE IF Contains(msg, "Connect Timeout") THEN Verdict(ReasonConnect, PenaltyTimeout, 0)
    ELSE IF Contains(msg, "Upstream Error") THEN Verdict(ReasonUpstream, PenaltyDefault, 0)
    ELSE Verdict(msg.prefix, PenaltyDefault, 0)

\* "Strategy": which set the failed entry joins
Exclusion(msg) ==
    IF Contains(msg, "401") \/ Contains(msg, "403") \/ Contains(msg, "404")
    THEN "excluded"
    ELSE IF Contains(msg, "429") THEN "excluded"
    ELSE IF Contains(msg, "Error Keyword Match") \/ Contains(msg, "Status Code Error")
         THEN "round_failed"
    ELSE IF Contains(msg, "503") \/ Contains(msg, "Timeout") THEN "round_failed"
    ELSE "none"

-----------------------------------------------------------------------------
(* Tier classification and ordering *)

\* A request, as far as the classifier reads it:
\*   last_role: role of the last message, "user" or "tool"
\*   text:      "short", "keyword" (holds one of the complex keywords), "long"
\*              (more than 2000 characters), "badpart" (the user message
\*              holds a part {"type": "text", "text": null})
\*   router:    what the router endpoint answers: "T1", "T2", "T3" (the tier
\*              as a word of a 200 body), "embedded" (a 200 body such as
\*              "T20": no tier as a word, "T2" as a substring), "none" (a 200
\*              body naming no tier), "non200", "badjson" (a 200 body that is
\*              not a chat completion), "timeout"
Req(last_role, text, router) == [last_role |-> last_role, text |-> text, router |-> router]

RouterReplies == {"T1", "T2", "T3", "embedded", "none", "non200", "badjson", "timeout"}

Requests ==
    {Req(r, t, a) : r \in {"user", "tool"},
                    t \in {"short", "keyword", "long", "badpart"},
                    a \in RouterReplies}

\* the request of the failover model: a short user message
PlainRequests == {Req("user", "short", "none")}

\* how determine_level ends: the tier, or an exception; its trace callbacks
\* (stage, seconds after the call); the seconds it took
Level(tier, events, took) == [tier |-> tier, raised |-> FALSE, events |-> events, took |-> took]

LevelRaised(events, took) == [tier |-> "t1", raised |-> TRUE, events |-> events, took |-> took]

\* lines 451-461: the tool-response shortcut
ToolShortcut(cfg) ==
    IF cfg.models.t2 # << >> THEN "t2"
    ELSE IF cfg.models.t3 # << >> THEN "t3" ELSE "t1"

\* lines 529-548: the heuristic; _extract_text_from_content joins the text
\* parts and raises TypeError on a part whose text is None
Heuristic(text, events, took) ==
    CASE text = "badpart" -> LevelRaised(events, took)
      [] text = "long" -> Level("t3", events, took)
      [] text = "keyword" -> Level("t2", events, took)
      [] OTHER -> Level("t1", events, took)

\* lines 464-523: the router call, then the heuristic when it names no tier
RouterCall(rq) ==
    LET start == <<Ev("ROUTER_START", 0)>>
        ended == start \o <<Ev("ROUTER_END", 0)>>
    IN  CASE rq.text = "badpart" ->
                \* building the history raises inside the try
                Heuristic(rq.text, start \o <<Ev("ROUTER_FAIL", 0)>>, 0)
          [] rq.router = "timeout" ->
                Heuristic(rq.text, start \o <<Ev("ROUTER_FAIL", RouterTimeoutSec)>>,
                          RouterTimeoutSec)
          [] rq.router = "badjson" ->
                Heuristic(rq.text, ended \o <<Ev("ROUTER_FAIL", 0)>>, 0)
          [] rq.router = "T1" -> Level("t1", ended, 0)
          [] rq.router = "T2" -> Level("t2", ended, 0)
          [] rq.router = "T3" -> Level("t3", ended, 0)
          [] rq.router = "embedded" -> Level("t2", ended, 0)
          [] OTHER -> Heuristic(rq.text, ended, 0)

\* determine_level asking the router model before looking at the last message
DetermineLevelRouterFirst(cfg, rq) ==
    IF cfg.router_enabled THEN RouterCall(rq)
    ELSE IF rq.last_role = "tool" THEN Level(ToolShortcut(cfg), << >>, 0)
    ELSE Level("t1", << >>, 0)

\* determine_level
DetermineLevel(cfg, rq) ==
    IF rq.last_role = "tool" THEN Level(ToolShortcut(cfg), << >>, 0)
    ELSE IF cfg.router_enabled THEN RouterCall(rq)
    ELSE Level("t1", << >>, 0)

Shuffles(list) ==
    { [i \in 1..Len(list) |-> list[f[i]]] :
        f \in {g \in [1..Len(list) -> 1..Len(list)] :
                 \A i, j \in 1..Len(list) : i # j => g[i] # g[j]} }

\* random.random(): 0 stands for 0.0 and 1 for a value above it
RandomValues == {0, 1}

\* the adaptive strategy: score = random.random() * weight with
\* weight = 1 / (1 + failure_score * 0.5), sorted by descending score;
\* list.sort is stable, so equal scores keep the list order. Scores are
\* compared after multiplying both by the two denominators.
AdaptiveOrders(list, store) ==
    LET n == Len(list)
        den(i) == 2 * ScoreUnit + store[list[i]]["failure_score"]
        Before(r, i, j) ==
            \/ r[i] * den(j) > r[j] * den(i)
            \/ r[i] * den(j) = r[j] * den(i) /\ i < j
        PlaceOf(r, i) == 1 + Cardinality({j \in 1..n : Before(r, j, i)})
    IN  { [k \in 1..n |-> list[CHOOSE i \in 1..n : PlaceOf(r, i) = k]] :
            r \in [1..n -> RandomValues] }

\* _get_sorted_models shuffling under every strategy
GetSortedModelsShuffled(list, strategy, store) == Shuffles(list)

\* the adaptive strategy without the random factor: healthiest first
GetSortedModelsByWeight(list, strategy, store) ==
    LET n == Len(list)
        den(i) == 2 * ScoreUnit + store[list[i]]["failure_score"]
        PlaceOf(i) == 1 + Cardinality({j \in 1..n : den(j) < den(i) \/ (den(j) = den(i) /\ j < i)})
    IN  { [k \in 1..n |-> list[CHOOSE i \in 1..n : PlaceOf(i) = k]] }

\* _get_sorted_models: the orders it may return; store is the HealthStore
\* after the _refresh_stats calls of the adaptive strategy
GetSortedModels(list, strategy, store) ==
    IF list = << >> THEN {list}
    ELSE IF strategy = "random" THEN Shuffles(list)
    ELSE IF strategy = "adaptive" THEN AdaptiveOrders(list, store)
    ELSE {list}

RECURSIVE RefreshAll(_, _, _, _)
\* the _refresh_stats calls of the adaptive strategy, in list order
RefreshAll(store, list, t, cfg) ==
    IF list = << >> THEN store
    ELSE RefreshAll(GetModelStats(RefreshStats(store, Head(list), t, cfg), Head(list), t),
                    Tail(list), t, cfg)

-----------------------------------------------------------------------------
(* The request: route_request *)

NoModel == [label |-> "", model |-> [prefix |-> "", model |-> ""]]

\* add_trace_event
TraceEvent(stage, abs_time, st, rc, model, reason) ==
    [stage |-> stage, timestamp |-> abs_time, status |-> st, retry_count |-> rc,
     model |-> model, reason |-> reason]

NoAttempt ==
    [entry |-> Gpt, display |-> NoModel, protocol |-> "", outcome |-> Raised(NoMsg, << >>, 0)]

\* line 601: the selected tier has no model
NoModelsNever(list) == FALSE

NoModels(list) == list = << >>

\* seconds between the return of a request and the arrival of the next one
IdleGaps == {CooldownRateLimit}

\* no call of the component is being followed
NoCall == [at |-> "none"]

\* the state after construction under the configuration cfg, the upstreams
\* behaving as ups
EngineConstructed(cfg, ups) ==
    /\ config = cfg
    /\ model_stats = StartupStats(cfg, 0)
    /\ stats_file = EmptyDict
    /\ now = 0
    /\ upstream = ups
    /\ requests = 0
    /\ pc = "idle"
    /\ req_config = cfg
    /\ level = "t1"
    /\ models = << >>
    /\ max_rounds = 1
    /\ round_idx = 0
    /\ pos = 1
    /\ excluded_models = {}
    /\ round_failed_models = {}
    /\ retry_count = 0
    /\ attempt_errors = << >>
    /\ trace_events = << >>
    /\ start_time = 0
    /\ call_start_time = 0
    /\ attempt = NoAttempt
    /\ result = "none"
    /\ visits = << >>
    /\ request = Req("user", "short", "none")
    /\ ops = 0
    /\ stats_file_torn = FALSE

Constructed(cfg, ups) ==
    /\ EngineConstructed(cfg, ups)
    /\ stream = NoCall
    /\ payload = NoCall
    /\ anthropic_messages = NoCall
    /\ trace_logger = NoCall
    /\ inflight = NoCall

\* the engine as shipped, idle, while one call of a component is followed
EngineIdle ==
    EngineConstructed(AppConfig(<<Gpt>>, 1, DefaultConditions, "sequential"),
                      [e \in Entries |-> Unobserved])

Init == \E cfg \in Configs : Constructed(cfg, [e \in Entries |-> Unobserved])

\* lines 550-629: the request rq arrives; up to the first loop iteration
Receive(rq, limit) ==
    /\ pc \in {"idle", "done"}
    /\ requests < limit
    /\ \E gap \in IdleGaps :
         LET t == IF pc = "done" THEN now + gap ELSE now
             dl == DetermineLevel(config, rq)
             lv == dl.tier
             t1 == t + dl.took
             classified ==
                 <<TraceEvent("REQ_RECEIVED", t, "success", 0, NoModel, "")>> \o
                 [i \in 1..Len(dl.events) |->
                     TraceEvent(dl.events[i].stage, t + dl.events[i].at,
                                IF dl.events[i].stage = "ROUTER_FAIL" THEN "fail" ELSE "success",
                                0, NoModel, "")]
         IN  /\ now' = t1
             /\ requests' = requests + 1
             /\ request' = rq
             /\ start_time' = t
             /\ trace_events' = classified
             /\ req_config' = config
             /\ level' = lv
             /\ max_rounds' = Max(1, config.rounds[lv])
             /\ IF dl.raised
                THEN /\ pc' = "done"
                     /\ result' = "internal_error"
                     /\ models' = << >>
                     /\ UNCHANGED model_stats
                ELSE IF NoModels(config.models[lv])
                THEN /\ pc' = "done"
                     /\ result' = "config_error"
                     /\ models' = << >>
                     /\ UNCHANGED model_stats
                ELSE /\ pc' = "loop"
                     /\ result' = "none"
                     /\ model_stats' =
                          IF config.strategies[lv] = "adaptive"
                          THEN RefreshAll(model_stats, config.models[lv], t1, config)
                          ELSE model_stats
                     /\ \E order \in GetSortedModels(config.models[lv], config.strategies[lv],
                                                      model_stats') :
                            models' = order
    /\ round_idx' = 0
    /\ pos' = 1
    /\ excluded_models' = {}
    /\ round_failed_models' = {}
    /\ retry_count' = 0
    /\ attempt_errors' = << >>
    /\ attempt' = NoAttempt
    /\ visits' = << >>
    /\ UNCHANGED <<config, stats_file, upstream, call_start_time, ops, stats_file_torn>>
    /\ UNCHANGED call_vars

\* a short user message arrives
ReceiveRequest == \E rq \in PlainRequests : Receive(rq, MaxRequests)

\* observer: what the loop finds when it comes to models[pos]
Visit ==
    [round |-> round_idx, pos |-> pos, entry |-> models[pos],
     excluded |-> models[pos] \in excluded_models,
     round_failed |-> models[pos] \in round_failed_models,
     cooling |-> /\ models[pos] \in DOMAIN model_stats
                 /\ DictGet(model_stats[models[pos]], "cooldown_until", 0) > now]

\* lines 636-647: the entry is skipped (excluded, failed this round, or cooling down)
SkipModel ==
    /\ UNCHANGED <<request, ops, stats_file_torn>>
    /\ UNCHANGED call_vars
    /\ pc = "loop"
    /\ pos <= Len(models)
    /\ LET entry == models[pos]
           listed == entry \in excluded_models \/ entry \in round_failed_models
       IN  /\ listed \/ CoolingDown(GetModelStats(model_stats, entry, now), entry, now)
           /\ model_stats' = IF listed THEN model_stats
                             ELSE GetModelStats(model_stats, entry, now)
    /\ pos' = pos + 1
    /\ visits' = Append(visits, Visit)
    /\ UNCHANGED <<config, stats_file, now, upstream, requests, pc, req_config, level,
                   models, max_rounds, round_idx, excluded_models, round_failed_models,
                   retry_count, attempt_errors, trace_events, start_time,
                   call_start_time, attempt, result>>

\* a loop that forgets the cooldown check of lines 641-647
EligibleIgnoringCooldown(entry, excluded, round_failed, store, t) ==
    /\ entry \notin excluded
    /\ entry \notin round_failed

\* whether the loop attempts the entry it is at
Eligible(entry, excluded, round_failed, store, t) ==
    /\ entry \notin excluded
    /\ entry \notin round_failed
    /\ ~CoolingDown(store, entry, t)

\* lines 636-714: the entry is eligible; MODEL_CALL_START and the dispatch
StartAttempt ==
    /\ UNCHANGED <<request, ops, stats_file_torn>>
    /\ UNCHANGED call_vars
    /\ pc = "loop"
    /\ pos <= Len(models)
    /\ LET entry == models[pos]
           store == GetModelStats(model_stats, entry, now)
           r == ResolveProvider(req_config, entry)
       IN  /\ Eligible(entry, excluded_models, round_failed_models, store, now)
           /\ model_stats' = store
           /\ call_start_time' = now
           /\ trace_events' = Append(trace_events,
                  TraceEvent("MODEL_CALL_START", now, "success", retry_count,
                             DisplayName(r), ""))
           /\ attempt' = [entry |-> entry, display |-> DisplayName(r),
                          protocol |-> r.protocol, outcome |-> Raised(NoMsg, << >>, 0)]
    /\ pc' = "calling"
    /\ visits' = Append(visits, Visit)
    /\ UNCHANGED <<config, stats_file, now, upstream, requests, req_config, level,
                   models, max_rounds, round_idx, pos, excluded_models,
                   round_failed_models, retry_count, attempt_errors, start_time, result>>

RECURSIVE StampFirstTry(_, _)
\* trace callbacks that always carry the retry count of a first attempt
StampFirstTry(events, rc) ==
    IF events = << >> THEN << >>
    ELSE <<TraceEvent(Head(events).stage, Head(events).at, "success", 0, NoModel, "")>>
         \o StampFirstTry(Tail(events), rc)

RECURSIVE Stamp(_, _)
\* the trace callbacks of _call_upstream, as trace events
Stamp(events, rc) ==
    IF events = << >> THEN << >>
    ELSE <<TraceEvent(Head(events).stage, Head(events).at, "success", rc, NoModel, "")>>
         \o Stamp(Tail(events), rc)

\* lines 882-1313: _call_upstream from the dispatch to its return or exception
Upstream ==
    /\ UNCHANGED <<request, ops, stats_file_torn>>
    /\ UNCHANGED call_vars
    /\ pc = "calling"
    /\ \E b \in Behaviours(attempt.protocol) :
         /\ upstream[attempt.entry] \in {Unobserved, b}
         /\ upstream' = [upstream EXCEPT ![attempt.entry] = b]
         /\ \E o \in CallUpstream(attempt.protocol, b, config.conditions, call_start_time,
                                  req_config.connect[level], req_config.generation[level]) :
              /\ now' = o.end
              /\ trace_events' = trace_events \o Stamp(o.events, retry_count)
              /\ attempt' = [attempt EXCEPT !.outcome = o]
              /\ pc' = IF o.ok THEN "returned" ELSE "raised"
    /\ UNCHANGED <<config, model_stats, stats_file, requests, req_config, level, models,
                   max_rounds, round_idx, pos, excluded_models, round_failed_models,
                   retry_count, attempt_errors, start_time, call_start_time, result,
                   visits>>

\* lines 727-756: the usage extraction raises KeyError on a response without
\* usage whose choices[0] has no message
UsageExtractionRaises(resp) == ~resp.usage /\ resp.choices = "malformed"

\* lines 717-765: _call_upstream returned
AttemptSucceeded ==
    /\ UNCHANGED <<request, ops, stats_file_torn>>
    /\ UNCHANGED call_vars
    /\ pc = "returned"
    /\ IF RecordSuccessRaises(model_stats, attempt.entry)
       THEN /\ model_stats' = GetModelStats(RefreshStats(model_stats, attempt.entry, now, config),
                                            attempt.entry, now)
            /\ attempt' = [attempt EXCEPT !.outcome.err = Msg("'success'", 0, "none")]
            /\ pc' = "raised"
            /\ UNCHANGED <<stats_file, result>>
       ELSE /\ model_stats' = RecordSuccess(model_stats, attempt.entry, now, config)
            /\ stats_file' = model_stats'
            /\ IF UsageExtractionRaises(attempt.outcome.resp)
               THEN /\ attempt' = [attempt EXCEPT !.outcome.err = MsgKeyError]
                    /\ pc' = "raised"
                    /\ UNCHANGED result
               ELSE /\ pc' = "done"
                    /\ result' = "response"
                    /\ UNCHANGED attempt
    /\ UNCHANGED <<config, now, upstream, requests, req_config, level, models, max_rounds,
                   round_idx, pos, excluded_models, round_failed_models, retry_count,
                   attempt_errors, trace_events, start_time, call_start_time, visits>>

\* lines 766-855: the except block
AttemptFailed ==
    /\ UNCHANGED <<request, ops, stats_file_torn>>
    /\ UNCHANGED call_vars
    /\ pc = "raised"
    /\ LET msg == attempt.outcome.err
           v == ClassifyFailure(msg)
           x == Exclusion(msg)
       IN  /\ trace_events' = Append(trace_events,
                  TraceEvent("MODEL_FAIL", now, "fail", retry_count, attempt.display, v.reason))
           /\ IF RecordFailureRaises(model_stats, attempt.entry)
              THEN \* the KeyError leaves the except block: the request dies
                   /\ model_stats' = GetModelStats(
                          RefreshStats(model_stats, attempt.entry, now, config),
                          attempt.entry, now)
                   /\ pc' = "done"
                   /\ result' = "internal_error"
                   /\ UNCHANGED <<stats_file, attempt_errors, excluded_models,
                                  round_failed_models, retry_count, pos>>
              ELSE /\ model_stats' = RecordFailure(model_stats, attempt.entry, now, config,
                                                   v.penalty, v.cooldown)
                   /\ stats_file' = model_stats'
                   /\ attempt_errors' = Append(attempt_errors,
                          [round |-> round_idx + 1, model |-> attempt.display,
                           reason |-> v.reason])
                   /\ excluded_models' = IF x = "excluded"
                                         THEN excluded_models \cup {attempt.entry}
                                         ELSE excluded_models
                   /\ round_failed_models' = IF x = "round_failed"
                                             THEN round_failed_models \cup {attempt.entry}
                                             ELSE round_failed_models
                   /\ retry_count' = retry_count + 1
                   /\ pos' = pos + 1
                   /\ pc' = "loop"
                   /\ UNCHANGED result
    /\ UNCHANGED <<config, now, upstream, requests, req_config, level, models, max_rounds,
                   round_idx, start_time, call_start_time, attempt, visits>>

\* a loop that gives up after its first round
RoundsLeftNever(r, rounds) == FALSE

\* a loop that walks the list once more than max_rounds times
RoundsLeftOneMore(r, rounds) == r < rounds

\* for round_idx in range(max_rounds): whether another round follows round r
RoundsLeft(r, rounds) == r + 1 < rounds

\* lines 631-634: the inner loop is over and a round is left
NextRound ==
    /\ UNCHANGED <<request, ops, stats_file_torn>>
    /\ UNCHANGED call_vars
    /\ pc = "loop"
    /\ pos > Len(models)
    /\ RoundsLeft(round_idx, max_rounds)
    /\ round_idx' = round_idx + 1
    /\ round_failed_models' = {}
    /\ pos' = 1
    /\ UNCHANGED <<config, model_stats, stats_file, now, upstream, requests, pc,
                   req_config, level, models, max_rounds, excluded_models, retry_count,
                   attempt_errors, trace_events, start_time, call_start_time, attempt,
                   result, visits>>

\* lines 857-880: both loops are over
AllFailed ==
    /\ UNCHANGED <<request, ops, stats_file_torn>>
    /\ UNCHANGED call_vars
    /\ pc = "loop"
    /\ pos > Len(models)
    /\ ~RoundsLeft(round_idx, max_rounds)
    /\ trace_events' = Append(trace_events,
           TraceEvent("ALL_FAILED", now, "fail", retry_count, NoModel, ""))
    /\ result' = "all_failed"
    /\ pc' = "done"
    /\ UNCHANGED <<config, model_stats, stats_file, now, upstream, requests, req_config,
                   level, models, max_rounds, round_idx, pos, excluded_models,
                   round_failed_models, retry_count, attempt_errors, start_time,
                   call_start_time, attempt, visits>>

\* line 880: the detail of the HTTP 502, the retry count and str(last_error);
\* last_error is the exception of the newest failed attempt, None without one
ExhaustionDetail == [retries |-> retry_count, last_error |-> attempt.outcome.err]

\* the attempt errors the detail carries
DetailErrors(detail) ==
    IF detail.last_error = NoMsg THEN << >> ELSE <<detail.last_error>>

Next ==
    \/ ReceiveRequest
    \/ SkipModel
    \/ StartAttempt
    \/ Upstream
    \/ AttemptSucceeded
    \/ AttemptFailed
    \/ NextRound
    \/ AllFailed

Spec == Init /\ [][Next]_vars

\* one request from its arrival to its end
FirstRequest == requests = 0 /\ ReceiveRequest

\* the steps of route_request after the arrival: the event loop resumes the
\* coroutine whenever what it awaits is done, and the header wait
\* (asyncio.wait_for, line 1117) and httpx's timeouts end every upstream call
RequestSteps ==
    \/ SkipModel
    \/ StartAttempt
    \/ Upstream
    \/ AttemptSucceeded
    \/ AttemptFailed
    \/ NextRound
    \/ AllFailed

NextTermination == FirstRequest \/ RequestSteps

SpecTermination == Init /\ [][NextTermination]_vars /\ WF_vars(RequestSteps)

----------------------------------------------------------------------------
\* Tier classification: every way of filling the three tiers with at most
\* one model each, the router model enabled or not, every request and every
\* answer of the router.

MaxLevelRequests == 1

TierLists == {<< >>, <<Gpt>>}

LevelConfigs ==
    { [AppConfig(l1, 2, DefaultConditions, "sequential") EXCEPT
          !.models = [t1 |-> l1, t2 |-> l2, t3 |-> l3],
          !.router_enabled = en] :
        l1 \in TierLists, l2 \in TierLists, l3 \in TierLists, en \in BOOLEAN }

\* the upstream answers, or is rate limited
LevelUpstreams ==
    { [e \in Entries |-> b] :
        b \in { Beh("ok", "prompt", 200, "text", "fast"),
                Beh("ok", "prompt", 429, "plain", "fast") } }

InitLevel == \E cfg \in LevelConfigs, ups \in LevelUpstreams : Constructed(cfg, ups)

ReceiveAnyRequest == \E rq \in Requests : Receive(rq, MaxLevelRequests)

NextLevel ==
    \/ ReceiveAnyRequest
    \/ SkipModel
    \/ StartAttempt
    \/ Upstream
    \/ AttemptSucceeded
    \/ AttemptFailed
    \/ NextRound
    \/ AllFailed

SpecLevel == InitLevel /\ [][NextLevel]_vars

----------------------------------------------------------------------------
\* The HealthStore by itself: the operations that requests, the admin
\* interface and the process lifecycle apply to it, in any order. No
\* request is in flight; the operations of a request appear as the calls
\* they make (_record_success, _record_failure, the adaptive ordering).

MaxOps == 4

\* seconds that pass between two operations: just over the decay threshold,
\* and an hour
IdleTimes == {DecayThresholdSec + 1, 3600}

StoreLists == {<<Gpt>>, <<Gpt, Claude>>}

StoreConfigs == {AppConfig(l, 1, DefaultConditions, "adaptive") : l \in StoreLists}

\* the (penalty, cooldown_seconds) pairs of the except block
Penalties ==
    { <<PenaltyTimeout, 0>>, <<PenaltyRateLimit, CooldownRateLimit>> }

\* how a _save_stats ends: the document is written, or the process dies
\* after open(..., 'w') has truncated the file and before json.dump is done
SaveOutcomes == {"written", "torn"}

\* the process starts with every model configured, so that a request may
\* hold any of them when an update removes it
InitStore ==
    Constructed(AppConfig(<<Gpt, Claude>>, 1, DefaultConditions, "adaptive"),
                [e \in Entries |-> Unobserved])

NoRequest ==
    /\ pc = "idle"
    /\ ops < MaxOps
    /\ ops' = ops + 1
    /\ UNCHANGED <<upstream, requests, pc, req_config, level, max_rounds,
                   round_idx, pos, excluded_models, round_failed_models, retry_count,
                   attempt_errors, trace_events, start_time, call_start_time, attempt,
                   result, visits, request>>
    /\ UNCHANGED call_vars

\* _save_stats of the store; when the process dies in it, the next process
\* starts from what _load_stats finds
SaveStats(store, cfg, outcome) ==
    /\ stats_file' = store
    /\ stats_file_torn' = (outcome = "torn")
    /\ model_stats' = IF outcome = "torn"
                      THEN Startup(LoadStats(store, TRUE), cfg, now)
                      ELSE store

StoreTick ==
    /\ NoRequest
    /\ \E d \in IdleTimes : now' = now + d
    /\ UNCHANGED <<config, model_stats, stats_file, stats_file_torn, models>>

StoreRecordSuccess ==
    /\ NoRequest
    /\ \E m \in Entries, outcome \in SaveOutcomes :
          /\ ~RecordSuccessRaises(model_stats, m)
          /\ SaveStats(RecordSuccess(model_stats, m, now, config), config, outcome)
    /\ UNCHANGED <<config, now, models>>

StoreRecordFailure ==
    /\ NoRequest
    /\ \E m \in Entries, p \in Penalties, outcome \in SaveOutcomes :
          /\ ~RecordFailureRaises(model_stats, m)
          /\ SaveStats(RecordFailure(model_stats, m, now, config, p[1], p[2]), config, outcome)
    /\ UNCHANGED <<config, now, models>>

\* GET /api/stats/models
StoreSnapshot ==
    /\ NoRequest
    /\ model_stats' = GetAllStats(model_stats, now, config)
    /\ UNCHANGED <<config, now, stats_file, stats_file_torn, models>>

\* _get_sorted_models with the adaptive strategy
StoreOrder ==
    /\ NoRequest
    /\ model_stats' = RefreshAll(model_stats, config.models.t1, now, config)
    /\ models' \in GetSortedModels(config.models.t1, config.strategies.t1, model_stats')
    /\ UNCHANGED <<config, now, stats_file, stats_file_torn>>

\* POST /api/config: update_config, then cleanup_stats
StoreUpdateConfig ==
    /\ NoRequest
    /\ \E cfg \in StoreConfigs, outcome \in SaveOutcomes :
          /\ cfg # config
          /\ config' = cfg
          /\ SaveStats(CleanupStats(model_stats, cfg, now), cfg, outcome)
    /\ UNCHANGED <<now, models>>

\* the process stops, with shutdown() or killed, and a new one starts
StoreRestart ==
    /\ NoRequest
    /\ \E graceful \in BOOLEAN :
          IF graceful
          THEN /\ stats_file' = model_stats
               /\ stats_file_torn' = FALSE
               /\ model_stats' = Startup(LoadStats(model_stats, FALSE), config, now)
          ELSE /\ model_stats' = Startup(LoadStats(stats_file, stats_file_torn), config, now)
               /\ UNCHANGED <<stats_file, stats_file_torn>>
    /\ UNCHANGED <<config, now, models>>

NextStore ==
    \/ StoreTick
    \/ StoreRecordSuccess
    \/ StoreRecordFailure
    \/ StoreSnapshot
    \/ StoreOrder
    \/ StoreUpdateConfig
    \/ StoreRestart

SpecStore == InitStore /\ [][NextStore]_vars

----------------------------------------------------------------------------
\* Stream aggregation (lines 1179-1242): the body of a 200 reply arrives as
\* chunks of bytes, cut anywhere. A body is a sequence of lines
\* data: <content>\n. The bytes of the model: "da" and "ta" are the two
\* halves of the prefix "data: ", "a" is an ASCII character of the content,
\* "E1" and "E2" are the lead and the continuation byte of a two-byte UTF-8
\* character, "NL" is the line feed. The JSON around the content is left
\* out: the content of a data line is what follows the prefix.

MaxLines == 2

MaxCuts == 2

\* the lines of a body: ASCII content, content with a two-byte character,
\* and data: [DONE]
Lines ==
    [ascii |-> <<"da", "ta", "a", "NL">>,
     multibyte |-> <<"da", "ta", "E1", "E2", "a", "NL">>,
     done |-> <<"da", "ta", "DONE", "NL">>]

RECURSIVE Flatten(_)
Flatten(ss) == IF ss = << >> THEN << >> ELSE Head(ss) \o Flatten(Tail(ss))

\* the bodies: up to MaxLines content lines, then data: [DONE]
StreamBodies ==
    { Flatten(ls) \o Lines.done :
        ls \in UNION {[1..n -> {Lines.ascii, Lines.multibyte}] : n \in 1..MaxLines} }

\* the ways the transport cuts a body of n bytes into chunks
CutSets(n) == {c \in SUBSET (1..(n - 1)) : Cardinality(c) <= MaxCuts}

RECURSIVE Chunks(_, _)
\* the chunks of body when it is cut after the positions cuts
Chunks(body, cuts) ==
    IF cuts = {} THEN <<body>>
    ELSE LET c == CHOOSE k \in cuts : \A j \in cuts : k <= j
         IN  <<SubSeq(body, 1, c)>>
             \o Chunks(SubSeq(body, c + 1, Len(body)), {k - c : k \in cuts \ {c}})

RECURSIVE Decode(_)
\* chunk.decode("utf-8"), and chunk.decode("utf-8", errors="replace") when
\* that raises: a lead byte with its continuation byte is the character, a
\* lead byte or a continuation byte alone is U+FFFD
Decode(bytes) ==
    IF bytes = << >> THEN << >>
    ELSE IF Head(bytes) = "E1" /\ Len(bytes) >= 2 /\ bytes[2] = "E2"
    THEN <<"U+00E9">> \o Decode(SubSeq(bytes, 3, Len(bytes)))
    ELSE IF Head(bytes) \in {"E1", "E2"}
    THEN <<"U+FFFD">> \o Decode(Tail(bytes))
    ELSE <<Head(bytes)>> \o Decode(Tail(bytes))

\* line.startswith("data: ")
IsDataLine(line) == Len(line) >= 2 /\ line[1] = "da" /\ line[2] = "ta"

RECURSIVE ConsumeLines(_, _)
\* while "\n" in buffer: take the line, add the content of a data line
ConsumeLines(buffer, content) ==
    IF \A i \in 1..Len(buffer) : buffer[i] # "NL"
    THEN [buffer |-> buffer, content |-> content]
    ELSE LET n == CHOOSE i \in 1..Len(buffer) :
                      buffer[i] = "NL" /\ \A j \in 1..(i - 1) : buffer[j] # "NL"
             line == SubSeq(buffer, 1, n - 1)
             rest == SubSeq(buffer, n + 1, Len(buffer))
             data_str == SubSeq(line, 3, Len(line))
         IN  ConsumeLines(rest,
                 IF IsDataLine(line) /\ data_str # <<"DONE">>
                 THEN content \o data_str ELSE content)

InitStream ==
    /\ EngineIdle
    /\ \E body \in StreamBodies :
         \E cuts \in CutSets(Len(body)) :
            stream = [at |-> "reading", body |-> body, chunks |-> Chunks(body, cuts),
                      buffer |-> << >>, aggregated_content |-> << >>]
    /\ payload = NoCall
    /\ anthropic_messages = NoCall
    /\ trace_logger = NoCall
    /\ inflight = NoCall

\* one turn of async for chunk in response.aiter_bytes()
ReadChunk ==
    /\ stream.at = "reading"
    /\ stream.chunks # << >>
    /\ LET got == ConsumeLines(stream.buffer \o Decode(Head(stream.chunks)),
                               stream.aggregated_content)
       IN  stream' = [stream EXCEPT !.chunks = Tail(stream.chunks),
                                    !.buffer = got.buffer,
                                    !.aggregated_content = got.content]
    /\ UNCHANGED engine_vars
    /\ UNCHANGED <<payload, anthropic_messages, trace_logger, inflight>>

\* the body has ended: the message is built from aggregated_content
EndOfStream ==
    /\ stream.at = "reading"
    /\ stream.chunks = << >>
    /\ stream' = [stream EXCEPT !.at = "returned"]
    /\ UNCHANGED engine_vars
    /\ UNCHANGED <<payload, anthropic_messages, trace_logger, inflight>>

NextStream == ReadChunk \/ EndOfStream

SpecStream == InitStream /\ [][NextStream]_vars

----------------------------------------------------------------------------
\* The outbound payload (lines 889-937). Two parameters of
\* ChatCompletionRequest are followed: temperature, whose field default is
\* None, and n, whose field default is 1. A request gives a parameter a
\* value, gives it null, or leaves it out; global_params and
\* model_params[model_id] define it or not. The three sources use different
\* values, so that the payload shows which one won.

\* the field defaults of ChatCompletionRequest; values are written as
\* strings, "None" is Python's None
FieldDefaults == [temperature |-> "None", n |-> "1"]

\* the request body: a function from the parameters the caller wrote to
\* the values, "None" for a JSON null
RequestBodies ==
    UNION {[ks -> {"None", "7"}] : ks \in SUBSET DOMAIN FieldDefaults}

\* the configured defaults with one value v
ParamDicts(v) == UNION {[ks -> {v}] : ks \in SUBSET DOMAIN FieldDefaults}

\* request.model_dump(exclude_none=True): the fields with their values, the
\* field default where the caller wrote none, without the None ones
ModelDump(body) ==
    LET field(k) == IF k \in DOMAIN body THEN body[k] ELSE FieldDefaults[k]
    IN  [k \in {x \in DOMAIN FieldDefaults : field(x) # "None"} |-> field(k)]

\* dict.update
Update(d, e) == [k \in (DOMAIN d) \cup (DOMAIN e) |-> IF k \in DOMAIN e THEN e[k] ELSE d[k]]

\* lines 914-926: final_payload
FinalPayload(body, global_params, model_params) ==
    Update(Update(global_params, model_params), ModelDump(body))

InitPayload ==
    /\ EngineIdle
    /\ \E body \in RequestBodies, g \in ParamDicts("3"), m \in ParamDicts("5") :
          payload = [at |-> "called", request |-> body, global_params |-> g,
                     model_params |-> m, final_payload |-> EmptyDict]
    /\ stream = NoCall
    /\ anthropic_messages = NoCall
    /\ trace_logger = NoCall
    /\ inflight = NoCall

BuildPayload ==
    /\ payload.at = "called"
    /\ payload' = [payload EXCEPT
                      !.at = "built",
                      !.final_payload = FinalPayload(payload.request, payload.global_params,
                                                     payload.model_params)]
    /\ UNCHANGED engine_vars
    /\ UNCHANGED <<stream, anthropic_messages, trace_logger, inflight>>

SpecPayload == InitPayload /\ [][BuildPayload]_vars

----------------------------------------------------------------------------
\* _convert_to_anthropic_messages (lines 308-445), one input message per
\* step. An input message is its role, an assistant message with or without
\* tool_calls; the content of an input message is a string. An output
\* message is its role and its content: a string ("str") or a list of
\* blocks, each block its type.

MaxMessages == 3

OpenAIMessages ==
    { [role |-> "system", tool_calls |-> FALSE], [role |-> "user", tool_calls |-> FALSE],
      [role |-> "assistant", tool_calls |-> FALSE], [role |-> "assistant", tool_calls |-> TRUE],
      [role |-> "tool", tool_calls |-> FALSE] }

MessageLists == UNION {[1..n -> OpenAIMessages] : n \in 1..MaxMessages}

\* flush_tool_buffer: the buffered tool results go into the last message
\* when that is a user message, into a new user message otherwise
FlushToolBuffer(out, buffer) ==
    IF buffer = << >> THEN out
    ELSE IF out # << >> /\ out[Len(out)].role = "user"
    THEN LET prev == out[Len(out)].content
         IN  [out EXCEPT ![Len(out)].content =
                 IF prev = "str" THEN <<"text">> \o buffer ELSE prev \o buffer]
    ELSE Append(out, [role |-> "user", content |-> buffer])

\* the body of the for loop for one message: the output list and the
\* tool result buffer after it
ConvertOne(msg, out, buffer) ==
    LET flushed == IF msg.role = "tool" THEN out ELSE FlushToolBuffer(out, buffer)
        kept == IF msg.role = "tool" THEN buffer ELSE << >>
    IN  CASE msg.role = "system" -> [out |-> out, buffer |-> buffer]
          [] msg.role = "tool" -> [out |-> out, buffer |-> Append(buffer, "tool_result")]
          [] msg.role = "user" ->
                [out |-> IF flushed # << >> /\ flushed[Len(flushed)].role = "user"
                         THEN LET prev == flushed[Len(flushed)].content
                              IN  [flushed EXCEPT ![Len(flushed)].content =
                                      IF prev = "str" THEN "str" ELSE Append(prev, "text")]
                         ELSE Append(flushed, [role |-> "user", content |-> "str"]),
                 buffer |-> kept]
          [] OTHER ->
                [out |-> Append(flushed,
                            [role |-> "assistant",
                             content |-> IF msg.tool_calls THEN <<"text", "tool_use">>
                                         ELSE <<"text">>]),
                 buffer |-> kept]

InitConvert ==
    /\ EngineIdle
    /\ \E ms \in MessageLists :
          anthropic_messages = [at |-> "loop", openai_messages |-> ms, i |-> 1,
                                out |-> << >>, tool_results_buffer |-> << >>]
    /\ stream = NoCall
    /\ payload = NoCall
    /\ trace_logger = NoCall
    /\ inflight = NoCall

\* for msg in openai_messages
ConvertMessage ==
    /\ anthropic_messages.at = "loop"
    /\ anthropic_messages.i <= Len(anthropic_messages.openai_messages)
    /\ LET a == anthropic_messages
           r == ConvertOne(a.openai_messages[a.i], a.out, a.tool_results_buffer)
       IN  anthropic_messages' =
               [a EXCEPT !.i = a.i + 1, !.out = r.out, !.tool_results_buffer = r.buffer]
    /\ UNCHANGED engine_vars
    /\ UNCHANGED <<stream, payload, trace_logger, inflight>>

\* the final flush and the return
ConvertReturn ==
    /\ anthropic_messages.at = "loop"
    /\ anthropic_messages.i > Len(anthropic_messages.openai_messages)
    /\ anthropic_messages' =
           [anthropic_messages EXCEPT
               !.at = "returned",
               !.out = FlushToolBuffer(anthropic_messages.out,
                                       anthropic_messages.tool_results_buffer),
               !.tool_results_buffer = << >>]
    /\ UNCHANGED engine_vars
    /\ UNCHANGED <<stream, payload, trace_logger, inflight>>

NextConvert == ConvertMessage \/ ConvertReturn

SpecConvert == InitConvert /\ [][NextConvert]_vars

----------------------------------------------------------------------------
\* Startup with a model_stats.json that an earlier version or an editor left
\* behind: the entry of gpt lacks one of the fields, or has the three fields
\* startup() itself writes.

LegacyFiles ==
    LET full == [failures |-> 1, success |-> 1, failure_score |-> ScoreUnit,
                 cooldown_until |-> 0, last_updated |-> 0]
    IN  { [m \in {Gpt} |-> [f \in (DOMAIN full) \ {missing} |-> full[f]]] :
            missing \in DOMAIN full }
        \cup { [m \in {Gpt} |-> StartupEntry(0)] }

InitLegacy ==
    Constructed(AppConfig(<<Gpt>>, MaxRounds, DefaultConditions, "sequential"),
                [e \in Entries |-> Unobserved])

\* startup(): _load_stats finds the file, then the pre-population
StartupFromFile ==
    /\ pc = "idle"
    /\ requests = 0
    /\ stats_file = EmptyDict
    /\ \E file \in LegacyFiles :
          /\ stats_file' = file
          /\ model_stats' = Startup(LoadStats(file, FALSE), config, now)
    /\ UNCHANGED <<config, now, upstream, requests, pc, req_config, level, models,
                   max_rounds, round_idx, pos, excluded_models, round_failed_models,
                   retry_count, attempt_errors, trace_events, start_time,
                   call_start_time, attempt, result, visits, request, ops,
                   stats_file_torn>>
    /\ UNCHANGED call_vars

NextLegacy ==
    \/ StartupFromFile
    \/ ReceiveRequest
    \/ SkipModel
    \/ StartAttempt
    \/ Upstream
    \/ AttemptSucceeded
    \/ AttemptFailed
    \/ NextRound
    \/ AllFailed

SpecLegacy == InitLegacy /\ [][NextLegacy]_vars

----------------------------------------------------------------------------
\* Several route_request coroutines on one event loop. A coroutine gives up
\* control only at its awaits: the classifier's router call and
\* _call_upstream. What lies between two awaits is one step. Every request
\* is a short user message under a configuration of one round, and each
\* attempt meets whatever its upstream answers at that moment.

MaxInflight == 2

Coroutines == 1..MaxInflight

InflightConfigs ==
    { AppConfig(<<Gpt, Claude>>, 1, c, "sequential") :
        c \in {DefaultConditions, AdminConditions} }

InitInflight ==
    /\ \E cfg \in InflightConfigs : EngineConstructed(cfg, [e \in Entries |-> Unobserved])
    /\ stream = NoCall
    /\ payload = NoCall
    /\ anthropic_messages = NoCall
    /\ trace_logger = NoCall
    /\ inflight = [co |-> [r \in Coroutines |->
                              [pc |-> "new", pos |-> 1, call_start_time |-> 0,
                               result |-> "none"]],
                   succeeded |-> [m \in Entries |-> 0],
                   failed |-> [m \in Entries |-> 0]]

\* lines 550-629: the request of a coroutine arrives
CoReceive ==
    /\ \E r \in Coroutines :
          /\ inflight.co[r].pc = "new"
          /\ inflight' = [inflight EXCEPT !.co[r].pc = "loop"]
    /\ UNCHANGED <<model_stats, stats_file, now>>
    /\ UNCHANGED <<config, upstream, requests, pc, req_config, level, models, max_rounds,
                   round_idx, pos, excluded_models, round_failed_models, retry_count,
                   attempt_errors, trace_events, start_time, call_start_time, attempt,
                   result, visits, request, ops, stats_file_torn>>
    /\ UNCHANGED <<stream, payload, anthropic_messages, trace_logger>>

\* lines 636-714: the loop of a coroutine comes to its next entry and skips
\* it or dispatches the attempt
CoVisit ==
    /\ \E r \in Coroutines :
          /\ inflight.co[r].pc = "loop"
          /\ inflight.co[r].pos <= Len(config.models.t1)
          /\ LET entry == config.models.t1[inflight.co[r].pos]
                 store == GetModelStats(model_stats, entry, now)
             IN  /\ model_stats' = store
                 /\ inflight' =
                       IF CoolingDown(store, entry, now)
                       THEN [inflight EXCEPT !.co[r].pos = @ + 1]
                       ELSE [inflight EXCEPT !.co[r].pc = "calling",
                                             !.co[r].call_start_time = now]
    /\ UNCHANGED <<stats_file, now>>
    /\ UNCHANGED <<config, upstream, requests, pc, req_config, level, models, max_rounds,
                   round_idx, pos, excluded_models, round_failed_models, retry_count,
                   attempt_errors, trace_events, start_time, call_start_time, attempt,
                   result, visits, request, ops, stats_file_torn>>
    /\ UNCHANGED <<stream, payload, anthropic_messages, trace_logger>>

\* lines 714-855: _call_upstream of a coroutine returns or raises, and the
\* code up to the next await runs
CoResume ==
    /\ \E r \in Coroutines :
          /\ inflight.co[r].pc = "calling"
          /\ LET entry == config.models.t1[inflight.co[r].pos]
                 protocol == ResolveProvider(config, entry).protocol
             IN  \E b \in Behaviours(protocol) :
                  \E o \in CallUpstream(protocol, b, config.conditions,
                                         inflight.co[r].call_start_time,
                                         config.connect.t1, config.generation.t1) :
                    /\ o.end >= now
                    /\ now' = o.end
                    /\ \E recorded \in {IF o.ok
                                         THEN RecordSuccess(model_stats, entry, o.end, config)
                                         ELSE model_stats} :
                       LET fails == ~o.ok \/ UsageExtractionRaises(o.resp)
                           v == ClassifyFailure(IF o.ok THEN MsgKeyError ELSE o.err)
                       IN  /\ model_stats' =
                                 IF fails
                                 THEN RecordFailure(recorded, entry, o.end, config,
                                                    v.penalty, v.cooldown)
                                 ELSE recorded
                           /\ inflight' =
                                 IF fails
                                 THEN [inflight EXCEPT !.co[r].pc = "loop",
                                                       !.co[r].pos = @ + 1,
                                                       !.failed[entry] = @ + 1]
                                 ELSE [inflight EXCEPT !.co[r].pc = "done",
                                                       !.co[r].result = "response",
                                                       !.succeeded[entry] = @ + 1]
                    /\ stats_file' = model_stats'
    /\ UNCHANGED <<config, upstream, requests, pc, req_config, level, models, max_rounds,
                   round_idx, pos, excluded_models, round_failed_models, retry_count,
                   attempt_errors, trace_events, start_time, call_start_time, attempt,
                   result, visits, request, ops, stats_file_torn>>
    /\ UNCHANGED <<stream, payload, anthropic_messages, trace_logger>>

\* lines 857-880: the loop of a coroutine is over
CoAllFailed ==
    /\ \E r \in Coroutines :
          /\ inflight.co[r].pc = "loop"
          /\ inflight.co[r].pos > Len(config.models.t1)
          /\ inflight' = [inflight EXCEPT !.co[r].pc = "done",
                                          !.co[r].result = "all_failed"]
    /\ UNCHANGED <<model_stats, stats_file, now>>
    /\ UNCHANGED <<config, upstream, requests, pc, req_config, level, models, max_rounds,
                   round_idx, pos, excluded_models, round_failed_models, retry_count,
                   attempt_errors, trace_events, start_time, call_start_time, attempt,
                   result, visits, request, ops, stats_file_torn>>
    /\ UNCHANGED <<stream, payload, anthropic_messages, trace_logger>>

NextInflight ==
    \/ CoReceive
    \/ CoVisit
    \/ CoResume
    \/ CoAllFailed

SpecInflight == InitInflight /\ [][NextInflight]_vars

----------------------------------------------------------------------------
\* POST /api/config while a request is between two attempts: the
\* administrator switches between the shipped retry conditions and their own.

ReconfigConfigs ==
    { AppConfig(<<Gpt, Claude>>, MaxRounds, c, "sequential") :
        c \in {DefaultConditions, AdminConditions} }

InitReconfig ==
    Constructed(AppConfig(<<Gpt, Claude>>, MaxRounds, DefaultConditions, "sequential"),
                [e \in Entries |-> Unobserved])

\* main.py update_config: config_manager.update_config, then cleanup_stats
UpdateConfig ==
    /\ pc = "loop"
    /\ \E cfg \in ReconfigConfigs :
          /\ cfg # config
          /\ config' = cfg
          /\ model_stats' = CleanupStats(model_stats, cfg, now)
    /\ stats_file' = model_stats'
    /\ UNCHANGED <<now, upstream, requests, pc, req_config, level, models, max_rounds,
                   round_idx, pos, excluded_models, round_failed_models, retry_count,
                   attempt_errors, trace_events, start_time, call_start_time, attempt,
                   result, visits, request, ops, stats_file_torn>>
    /\ UNCHANGED call_vars

NextReconfig ==
    \/ UpdateConfig
    \/ ReceiveRequest
    \/ SkipModel
    \/ StartAttempt
    \/ Upstream
    \/ AttemptSucceeded
    \/ AttemptFailed
    \/ NextRound
    \/ AllFailed

SpecReconfig == InitReconfig /\ [][NextReconfig]_vars

----------------------------------------------------------------------------
\* TraceLogger (logger.py) and the /ws/logs endpoint (main.py:77-85). A line
\* is the number of the log call that wrote it. The ring buffer and the
\* replay are followed with small sizes in place of 10 000 and 1 000. The
\* sends of a broadcast are tasks of the event loop, run in the order of
\* their creation; the sends of a replay are awaited one by one, so log
\* calls and tasks run between them.

BufferMaxlen == 3

HistoryLen == 2

MaxLogged == 4

WebSockets == {"ws1", "ws2"}

\* the last n elements of a sequence: list(q)[-n:]
LastLines(q, n) == SubSeq(q, Max(1, Len(q) - n + 1), Len(q))

\* deque(maxlen).append without the eviction
DequeAppendUnbounded(q, x, maxlen) == Append(q, x)

\* deque(maxlen).append: a full deque drops its oldest element
DequeAppend(q, x, maxlen) ==
    IF Len(q) >= maxlen THEN Append(Tail(q), x) ELSE Append(q, x)

\* list.remove of disconnect()
Disconnect(active, ws) == SelectSeq(active, LAMBDA w : w # ws)

InitTrace ==
    /\ EngineIdle
    /\ trace_logger =
          [at |-> "running", buffer |-> << >>, logged |-> 0, active_websockets |-> << >>,
           tasks |-> << >>,
           state |-> [w \in WebSockets |-> "new"],
           broken |-> [w \in WebSockets |-> FALSE],
           history |-> [w \in WebSockets |-> << >>],
           to_replay |-> [w \in WebSockets |-> << >>],
           sent |-> [w \in WebSockets |-> << >>],
           send_failed |-> {}]
    /\ stream = NoCall
    /\ payload = NoCall
    /\ anthropic_messages = NoCall
    /\ inflight = NoCall

\* log(): the buffer append and the broadcast, which creates one task per
\* subscriber
Log ==
    /\ trace_logger.logged < MaxLogged
    /\ LET t == trace_logger
           msg == t.logged + 1
       IN  trace_logger' =
               [t EXCEPT !.logged = msg,
                         !.buffer = DequeAppend(t.buffer, msg, BufferMaxlen),
                         !.tasks = t.tasks \o [i \in 1..Len(t.active_websockets) |->
                                                  <<t.active_websockets[i], msg>>]]
    /\ UNCHANGED <<engine_vars, stream, payload, anthropic_messages, inflight>>

\* connect(), up to the first send of the replay
Connect ==
    /\ \E ws \in WebSockets :
          /\ trace_logger.state[ws] = "new"
          /\ ~trace_logger.broken[ws]
          /\ LET t == trace_logger
                 h == LastLines(t.buffer, HistoryLen)
             IN  trace_logger' =
                     [t EXCEPT !.state[ws] = "replaying",
                               !.active_websockets = Append(t.active_websockets, ws),
                               !.history[ws] = h,
                               !.to_replay[ws] = h]
    /\ UNCHANGED <<engine_vars, stream, payload, anthropic_messages, inflight>>

\* connect(): one send of the replay, or its end. A send that raises ends
\* the replay (except: pass). The endpoint then waits in receive_text.
Replay ==
    /\ \E ws \in WebSockets :
          /\ trace_logger.state[ws] = "replaying"
          /\ LET t == trace_logger
             IN  trace_logger' =
                     IF t.to_replay[ws] = << >>
                     THEN [t EXCEPT !.state[ws] = "listening"]
                     ELSE IF t.broken[ws]
                     THEN [t EXCEPT !.state[ws] = "listening",
                                    !.send_failed = t.send_failed \cup {ws}]
                     ELSE [t EXCEPT !.to_replay[ws] = Tail(t.to_replay[ws]),
                                    !.sent[ws] = Append(t.sent[ws], Head(t.to_replay[ws]))]
    /\ UNCHANGED <<engine_vars, stream, payload, anthropic_messages, inflight>>

\* _safe_send: the oldest task of the broadcasts runs
SafeSend ==
    /\ trace_logger.tasks # << >>
    /\ LET t == trace_logger
           ws == Head(t.tasks)[1]
           msg == Head(t.tasks)[2]
       IN  trace_logger' =
               IF t.broken[ws]
               THEN [t EXCEPT !.tasks = Tail(t.tasks),
                              !.send_failed = t.send_failed \cup {ws},
                              !.active_websockets = Disconnect(t.active_websockets, ws)]
               ELSE [t EXCEPT !.tasks = Tail(t.tasks),
                              !.sent[ws] = Append(t.sent[ws], msg)]
    /\ UNCHANGED <<engine_vars, stream, payload, anthropic_messages, inflight>>

\* the connection of a subscriber breaks: every later send to it raises
Break ==
    /\ \E ws \in WebSockets :
          /\ trace_logger.state[ws] \in {"replaying", "listening"}
          /\ ~trace_logger.broken[ws]
          /\ trace_logger' = [trace_logger EXCEPT !.broken[ws] = TRUE]
    /\ UNCHANGED <<engine_vars, stream, payload, anthropic_messages, inflight>>

\* websocket_endpoint: receive_text raises WebSocketDisconnect for a
\* subscriber that has closed. Whether it does so after a send that raised
\* is the framework's choice, so the step may or may not be taken.
EndpointDisconnect ==
    /\ \E ws \in WebSockets :
          /\ trace_logger.state[ws] = "listening"
          /\ trace_logger.broken[ws]
          /\ trace_logger' =
                 [trace_logger EXCEPT
                     !.state[ws] = "closed",
                     !.active_websockets = Disconnect(trace_logger.active_websockets, ws)]
    /\ UNCHANGED <<engine_vars, stream, payload, anthropic_messages, inflight>>

NextTrace ==
    \/ Log
    \/ Connect
    \/ Replay
    \/ SafeSend
    \/ Break
    \/ EndpointDisconnect

SpecTrace == InitTrace /\ [][NextTrace]_vars

-----------------------------------------------------------------------------
\* Vocabulary of the properties

\* the name under which the trace shows an entry
DisplayOf(entry) == DisplayName(ResolveProvider(req_config, entry))

\* the positions of the trace that hold an event of the stage
StageIdx(stage) == {i \in 1..Len(trace_events) : trace_events[i].stage = stage}

IsModelFail(e) == e.stage = "MODEL_FAIL"

\* the MODEL_FAIL events of the request, in order
FailsOf == SelectSeq(trace_events, IsModelFail)

\* a visit that found the entry neither listed nor cooling down
Attemptable(v) == ~v.excluded /\ ~v.round_failed /\ ~v.cooling

AttemptableVisits == SelectSeq(visits, Attemptable)

\* the except block has just run: MODEL_FAIL is the newest event
JustFailed ==
    /\ pc = "loop"
    /\ Len(trace_events) > 0
    /\ trace_events[Len(trace_events)].stage = "MODEL_FAIL"

\* what the upstream of the entry answered with, 0 before any answer was seen
AnsweredStatus(entry) ==
    IF upstream[entry] # Unobserved /\ upstream[entry].conn = "ok"
       /\ upstream[entry].hdr = "prompt"
    THEN upstream[entry].status ELSE 0

CooldownUntil(entry) == DictGet(model_stats[entry], "cooldown_until", 0)

FailureScore(entry) == DictGet(model_stats[entry], "failure_score", 0)

-----------------------------------------------------------------------------
\* C1: once an attempt of a request has succeeded (FULL_RESPONSE is in the
\* trace), no MODEL_CALL_START, MODEL_FAIL or ALL_FAILED follows it, and the
\* request ends by handing the aggregated response to the caller.
C1_SuccessEndsTheRequest ==
    \A i \in StageIdx("FULL_RESPONSE") :
        /\ \A j \in (i + 1)..Len(trace_events) :
               trace_events[j].stage \notin {"MODEL_CALL_START", "MODEL_FAIL", "ALL_FAILED"}
        /\ pc = "done" => result = "response"

\* C2: ALL_FAILED appears at most once in a request trace, as its last event,
\* and only when the loop has come to every (round, model) pair and every
\* pair it found eligible has emitted its MODEL_FAIL.
C2_AllFailedOnceAndLast ==
    /\ Cardinality(StageIdx("ALL_FAILED")) <= 1
    /\ \A i \in StageIdx("ALL_FAILED") :
        /\ i = Len(trace_events)
        /\ {<<visits[k].round, visits[k].pos>> : k \in 1..Len(visits)}
             = (0..(max_rounds - 1)) \X (1..Len(models))
        /\ Len(FailsOf) = Len(AttemptableVisits)
        /\ \A k \in 1..Len(FailsOf) :
               FailsOf[k].model = DisplayOf(AttemptableVisits[k].entry)

\* C2 witness: a request of two rounds ended in ALL_FAILED after a visit that
\* was skipped and at least two attempts that failed
C2_Witness ==
    /\ pc = "done"
    /\ result = "all_failed"
    /\ max_rounds = 2
    /\ Len(FailsOf) >= 2
    /\ \E k \in 1..Len(visits) : ~Attemptable(visits[k])

\* C3: the loop never starts an attempt on an entry while now < cooldown_until,
\* whichever request set the cooldown; an entry that is not listed is
\* attempted as soon as the loop comes to it with now >= cooldown_until.
C3_CooldownHonoured ==
    [][ (pc = "loop" /\ pos <= Len(models)) =>
           /\ now < CooldownUntil(models[pos]) =>
                  /\ pc' = "loop"
                  /\ trace_events' = trace_events
           /\ ( /\ now >= CooldownUntil(models[pos])
                /\ models[pos] \notin excluded_models \cup round_failed_models ) =>
                  /\ pc' = "calling"
                  /\ trace_events'[Len(trace_events')].stage = "MODEL_CALL_START"
                  /\ trace_events'[Len(trace_events')].model = DisplayOf(models[pos]) ]_vars

\* C3 witness: a later request attempts an entry at the very instant the
\* cooldown an earlier request set on it runs out
C3_Witness ==
    /\ pc = "calling"
    /\ requests = 2
    /\ CooldownUntil(attempt.entry) > 0
    /\ CooldownUntil(attempt.entry) = now

\* C3 witness of the skip: the loop has passed over an entry that was cooling
\* down from an earlier request
C3_SkipWitness ==
    /\ requests = 2
    /\ \E k \in 1..Len(visits) :
           visits[k].cooling /\ ~visits[k].excluded /\ ~visits[k].round_failed

\* the statuses the loop is to answer with a hard exclusion
HardCodes == {401, 403, 404, 429}

\* the entry has failed in this request for a reason that skips it for the
\* rest of the round only: a timeout, a matched retryable status, a keyword
SoftFailed(entry) ==
    /\ AnsweredStatus(entry) \notin HardCodes
    /\ \E i \in StageIdx("MODEL_FAIL") :
        /\ trace_events[i].model = DisplayOf(entry)
        /\ trace_events[i].reason \in
               {ReasonTTFT, ReasonTotal, ReasonConnect, ReasonStatus, ReasonKeyword}

\* the visits k before visit i, in the round r, that attempted the same entry
AttemptsBefore(i, r) ==
    {k \in 1..(i - 1) : /\ visits[k].entry = visits[i].entry
                        /\ visits[k].round = r
                        /\ Attemptable(visits[k])}

\* C4: an entry whose upstream answered 401, 403, 404 or 429 is hard-excluded:
\* the request attempts it in no later round.
C4_HardStatusNeverRetried ==
    \A i \in 1..Len(visits) :
        ( /\ AnsweredStatus(visits[i].entry) \in HardCodes
          /\ \E r \in 0..(visits[i].round - 1) : AttemptsBefore(i, r) # {} )
        => ~Attemptable(visits[i])

\* C5: an entry that failed with a timeout, a matched retryable status or a
\* keyword match is skipped for the rest of that round only: when the next
\* round comes to it and it is not cooling down, it is attempted again.
C5_SoftFailureRetriedNextRound ==
    \A i \in 1..Len(visits) :
        ( /\ visits[i].round >= 1
          /\ SoftFailed(visits[i].entry)
          /\ AttemptsBefore(i, visits[i].round - 1) # {}
          /\ AttemptsBefore(i, visits[i].round) = {}
          /\ ~visits[i].cooling )
        => Attemptable(visits[i])

\* C6: within one round an entry is attempted at most once whatever the kind
\* of its failure, so a request of one round in which every model fails ends
\* with exactly one MODEL_FAIL per model.
C6_OncePerRound ==
    /\ \A i \in 1..Len(visits) :
           Attemptable(visits[i]) => AttemptsBefore(i, visits[i].round) = {}
    /\ (pc = "done" /\ result = "all_failed" /\ max_rounds = 1) =>
           \A entry \in SeqSet(models) :
               Cardinality({i \in StageIdx("MODEL_FAIL") :
                               trace_events[i].model = DisplayOf(entry)}) = 1

\* C7: right after an attempt failed with HTTP 429 the entry carries a
\* failure score of at least 10 and a cooldown of at least 60 seconds,
\* whatever the provider protocol and the retry conditions.
C7_RateLimitPenalty ==
    (JustFailed /\ AnsweredStatus(attempt.entry) = 429) =>
        /\ FailureScore(attempt.entry) >= 10 * ScoreUnit
        /\ CooldownUntil(attempt.entry) >= now + 60

\* C8: right after an attempt failed with HTTP 401 or 403 the entry carries
\* a failure score of at least 50 and a cooldown of at least 300 seconds.
C8_AuthPenalty ==
    (JustFailed /\ AnsweredStatus(attempt.entry) \in {401, 403}) =>
        /\ FailureScore(attempt.entry) >= 50 * ScoreUnit
        /\ CooldownUntil(attempt.entry) >= now + 300

\* C9: an attempt whose upstream does not deliver the response headers within
\* timeouts.connect of the tier is cancelled at that budget and fails as a
\* TTFT timeout, on the openai and on the v1-messages protocol alike.
C9_HeaderBudgetEnforced ==
    ( /\ pc \in {"returned", "raised"}
      /\ attempt.outcome.err # MsgKeyError
      /\ upstream[attempt.entry].conn = "ok"
      /\ upstream[attempt.entry].hdr \in {"late", "never"} )
    => /\ pc = "raised"
       /\ attempt.outcome.err = MsgTTFT
       /\ ClassifyFailure(attempt.outcome.err).reason = ReasonTTFT
       /\ now = call_start_time + (req_config.connect[level] \div 1000)

\* C10: no attempt that lasted longer than timeouts.generation of the tier,
\* from its dispatch to the last byte, is a success; it fails as a total
\* timeout even when the upstream keeps trickling chunks.
C10_GenerationBudgetEnforced ==
    /\ pc = "returned" =>
           now - call_start_time <= req_config.generation[level] \div 1000
    /\ ( /\ pc \in {"returned", "raised"}
         /\ attempt.outcome.err # MsgKeyError
         /\ now - call_start_time > req_config.generation[level] \div 1000 )
       => /\ pc = "raised"
          /\ ClassifyFailure(attempt.outcome.err).reason = ReasonTotal

\* the entry's upstream answers 200 with neither text nor tool calls
AnswersEmpty(entry) ==
    /\ AnsweredStatus(entry) = 200
    /\ upstream[entry].body = "empty"

\* C11: a response handed to the caller as a success has non-empty content or
\* at least one tool call; a 200 that yields neither is a failed attempt, on
\* either protocol.
C11_SuccessIsNeverEmpty ==
    /\ (pc = "done" /\ result = "response") =>
           \/ attempt.outcome.resp.content # ""
           \/ attempt.outcome.resp.tool_calls > 0
    /\ (pc \in {"returned", "raised"} /\ AnswersEmpty(attempt.entry)) => pc = "raised"

\* C12: with retry_on_empty = true an attempt whose 200 reply yields neither
\* text nor tool calls ends in one MODEL_FAIL with the empty-reply reason, the
\* loop goes on, and what the caller receives is another model's content.
C12_EmptyReplyIsRetried ==
    (config.conditions.retry_on_empty /\ req_config.conditions.retry_on_empty) =>
        /\ (pc \in {"returned", "raised"} /\ AnswersEmpty(attempt.entry)) =>
               /\ pc = "raised"
               /\ attempt.outcome.err = MsgEmpty
        /\ (JustFailed /\ AnswersEmpty(attempt.entry)) =>
               /\ trace_events[Len(trace_events)].reason = ReasonEmpty
               /\ result = "none"
        /\ (pc = "done" /\ result = "response") => ~AnswersEmpty(attempt.entry)

\* C13: when every attempt of a request has failed, the failure the caller
\* receives carries the aggregated attempt_errors, one entry per failed
\* attempt.
C13_ExhaustionCarriesAllErrors ==
    (pc = "done" /\ result = "all_failed") =>
        /\ Len(attempt_errors) = Len(FailsOf)
        /\ Len(DetailErrors(ExhaustionDetail)) = Len(attempt_errors)

\* stages of the events of the current request's trace
Stages == {trace_events[i].stage : i \in 1..Len(trace_events)}

\* C14: a request whose selected tier has no model fails at once with the
\* configuration error (not the exhaustion failure): its step emits no
\* MODEL_CALL_START and no ALL_FAILED, makes no attempt and no retry, and
\* leaves every HealthStore entry as it was.
C14_EmptyTierFailsAtOnce ==
    [][(requests' = requests + 1 /\ config.models[level'] = << >>) =>
          /\ pc' = "done"
          /\ result' = "config_error"
          /\ Stages' \cap {"MODEL_CALL_START", "ALL_FAILED"} = {}
          /\ visits' = << >>
          /\ retry_count' = 0
          /\ model_stats' = model_stats
          /\ stats_file' = stats_file]_vars

C14_Witness ==
    /\ pc = "done"
    /\ result = "config_error"
    /\ requests = MaxRequests
    /\ Stages = {"REQ_RECEIVED"}

\* the tiers of cfg that have a model
Configured(cfg) == {t \in Tiers : cfg.models[t] # << >>}

\* the first tier of the sequence order that has a model in cfg
FirstConfigured(cfg, order) ==
    order[CHOOSE i \in 1..Len(order) :
             /\ order[i] \in Configured(cfg)
             /\ \A j \in 1..(i - 1) : order[j] \notin Configured(cfg)]

\* the current request has been classified
Classified == pc # "idle"

\* C17: when the last message of the request has role tool, the classifier
\* returns the first of t2, t3, t1 whose model list is not empty, and the
\* router model is not called (the trace holds no ROUTER_START), also when
\* the router is enabled.
C17_ToolShortcutSkipsRouter ==
    (Classified /\ request.last_role = "tool") =>
        /\ "ROUTER_START" \notin Stages
        /\ Configured(req_config) # {} =>
               level = FirstConfigured(req_config, <<"t2", "t3", "t1">>)

C17_Witness ==
    /\ Classified
    /\ request.last_role = "tool"
    /\ request.router = "T1"
    /\ req_config.router_enabled
    /\ Configured(req_config) = {"t1", "t3"}
    /\ level = "t3"
    /\ result = "response"

\* the heuristic's tier for a request text: long text is t3, text with a
\* complex keyword is t2, anything else is t1
HeuristicTier(text) ==
    CASE text = "long" -> "t3"
      [] text = "keyword" -> "t2"
      [] OTHER -> "t1"

\* the router was asked and named no tier as a word of a 200 reply
RouterIndeterminate ==
    /\ req_config.router_enabled
    /\ request.last_role = "user"
    /\ request.router \notin {"T1", "T2", "T3"}

\* C18: classification never fails a request: it ends with one of t1, t2,
\* t3 and never with an exception; when the router is enabled and its call
\* times out, errors, answers non-200 or answers a body that names no tier,
\* the tier is the heuristic's.
C18_ClassifierNeverFatal ==
    Classified =>
        /\ result # "internal_error"
        /\ level \in Tiers
        /\ RouterIndeterminate => level = HeuristicTier(request.text)

\* C18, the part about exceptions alone
C18_NeverRaises == Classified => result # "internal_error"

\* C19: when exactly one tier has a model, the classifier selects that tier,
\* on the shortcut paths (tool response, router disabled) too, and the
\* request goes to the configured pool instead of the configuration error.
C19_SingleTierHonoured ==
    (Classified /\ Cardinality(Configured(req_config)) = 1) =>
        /\ level \in Configured(req_config)
        /\ result # "config_error"

\* positions of the trace that hold one of the stages
At(stages) == {i \in 1..Len(trace_events) : trace_events[i].stage \in stages}

\* the position after the events of the attempt started at position i: the
\* next MODEL_CALL_START or ALL_FAILED, or the end of the trace
AttemptEnd(i) ==
    LET later == {j \in At({"MODEL_CALL_START", "ALL_FAILED"}) : j > i}
    IN  IF later = {} THEN Len(trace_events) + 1
        ELSE CHOOSE j \in later : \A k \in later : j <= k

\* positions of the given stages among the events of the attempt started at i
Within(i, stages) == {j \in At(stages) : i < j /\ j < AttemptEnd(i)}

\* the attempt started at position i is over
AttemptOver(i) == AttemptEnd(i) <= Len(trace_events) \/ pc \in {"loop", "done"}

\* REQ_RECEIVED is the first event and occurs once
ReceivedFirstAndOnce ==
    trace_events # << >> => At({"REQ_RECEIVED"}) = {1}

\* per attempt: at most one FIRST_TOKEN, at most one closing event, exactly
\* one once the attempt is over, and the FIRST_TOKEN before the closing event
OneClosingEventPerAttempt ==
    \A i \in At({"MODEL_CALL_START"}) :
        /\ Cardinality(Within(i, {"FIRST_TOKEN"})) <= 1
        /\ Cardinality(Within(i, {"FULL_RESPONSE", "MODEL_FAIL"})) <= 1
        /\ AttemptOver(i) => Cardinality(Within(i, {"FULL_RESPONSE", "MODEL_FAIL"})) = 1
        /\ \A f \in Within(i, {"FIRST_TOKEN"}), c \in Within(i, {"FULL_RESPONSE", "MODEL_FAIL"}) :
               f < c

\* FULL_RESPONSE comes after the FIRST_TOKEN of its attempt, in time order
FirstTokenBeforeFullResponse ==
    \A i \in At({"MODEL_CALL_START"}) :
        \A c \in Within(i, {"FULL_RESPONSE"}) :
            \E f \in Within(i, {"FIRST_TOKEN"}) :
                /\ f < c
                /\ trace_events[i].timestamp <= trace_events[f].timestamp
                /\ trace_events[f].timestamp <= trace_events[c].timestamp

\* C20: the trace of a request follows the state machine: REQ_RECEIVED is
\* first and occurs once; each MODEL_CALL_START is followed, before the next
\* one, by at most one FIRST_TOKEN and then exactly one of FULL_RESPONSE and
\* MODEL_FAIL; FULL_RESPONSE comes after its attempt's FIRST_TOKEN, the
\* timestamps of the three in order.
C20_TraceFollowsStateMachine ==
    /\ ReceivedFirstAndOnce
    /\ OneClosingEventPerAttempt
    /\ FirstTokenBeforeFullResponse

\* the failure_score of every entry of a store (an entry without the field
\* has none)
Scores(store) ==
    {store[m]["failure_score"] : m \in {k \in DOMAIN store : "failure_score" \in DOMAIN store[k]}}

\* C15: in every reachable state every HealthStore entry has failure_score
\* >= 0, in memory and in the persisted document, whatever sequence of decay
\* refreshes, recorded successes and failures, snapshots, adaptive orderings
\* and cleanups led there.
C15_ScoreNeverNegative ==
    \A fs \in Scores(model_stats) \cup Scores(stats_file) : fs >= 0

\* a failure was recorded and the decay has since taken the whole score away
C15_Witness ==
    \E m \in DOMAIN model_stats :
        /\ DictGet(model_stats[m], "failures", 0) > 0
        /\ DictGet(model_stats[m], "success", 0) = 0
        /\ "failure_score" \in DOMAIN model_stats[m]
        /\ model_stats[m]["failure_score"] = 0
        /\ model_stats[m]["last_updated"] >= 3600

\* the counters of model m in a store
Counter(store, m, c) == DictGet(store[m], c, 0)

\* C16: for every model id the failures and success counters held by the
\* HealthStore never decrease, over recorded successes and failures,
\* snapshots, config updates with their cleanup, and persist/restore cycles
\* (an entry that a cleanup removed and a later update created again is a
\* new entry).
C16_CountersNeverDecrease ==
    [][\A m \in (DOMAIN model_stats) \cap (DOMAIN model_stats') :
          /\ Counter(model_stats', m, "failures") >= Counter(model_stats, m, "failures")
          /\ Counter(model_stats', m, "success") >= Counter(model_stats, m, "success")]_vars

\* C24: model_stats.json is replaced atomically: at every instant, a crash
\* in the middle of a save included, the file holds a complete document (the
\* previous one or the new one), so no restart finds a cut-off file and
\* starts from the empty store.
C24_FileAlwaysComplete == ~stats_file_torn

\* round(100 / (1 + 0.2 * fs)), fs in units of 1/ScoreUnit (no tie occurs:
\* a tie needs 200 / (1 + 0.2 * fs) odd, and the scores are multiples of 0.5)
RoundedHealth(fs) ==
    (2 * 100 * 5 * ScoreUnit + (5 * ScoreUnit + fs)) \div (2 * (5 * ScoreUnit + fs))

\* the failure_score of entry s with the decay applied up to time t
DecayedScore(s, t, cfg) ==
    Max(0, s["failure_score"] - (t - s["last_updated"]) * cfg.decay_rate)

\* entry s, as returned at time t, shows the health of its own failure_score
HealthIsDerived(s, t) ==
    s["health_score"] =
        IF DictGet(s, "cooldown_until", 0) > t THEN 0 ELSE RoundedHealth(s["failure_score"])

\* the same with the quotient cut off instead of rounded
HealthIsDerivedCutOff(s, t) ==
    s["health_score"] =
        IF DictGet(s, "cooldown_until", 0) > t THEN 0 ELSE HealthScore(s["failure_score"])

\* C28: every entry that get_all_stats returns has the time decay applied to
\* its failure_score up to now, and a health_score equal to
\* round(100 / (1 + 0.2 * failure_score)) of the returned failure_score, or 0
\* while now < cooldown_until.
C28_SnapshotIsDerived ==
    [][StoreSnapshot =>
          \A m \in DOMAIN model_stats' :
              /\ "failure_score" \in DOMAIN model_stats[m] =>
                     model_stats'[m]["failure_score"] = DecayedScore(model_stats[m], now, config)
              /\ HealthIsDerived(model_stats'[m], now)]_vars

\* C28 with the quotient cut off: the returned health_score is still not the
\* one of the returned failure_score
C28_SnapshotIsDerivedCutOff ==
    [][StoreSnapshot =>
          \A m \in DOMAIN model_stats' : HealthIsDerivedCutOff(model_stats'[m], now)]_vars

\* field f of the entry of m, 0 when the store has no such entry or field
Field(store, m, f) == IF m \in DOMAIN store THEN DictGet(store[m], f, 0) ELSE 0

\* the failure_score of m with the decay applied up to time t
Decayed(store, m, t, cfg) ==
    Max(0, Field(store, m, "failure_score") - (t - Field(store, m, "last_updated")) * cfg.decay_rate)

\* this step is a completed _record_success for m
SuccessRecordedFor(m) ==
    /\ Field(model_stats', m, "success") # Field(model_stats, m, "success")
    /\ ~stats_file_torn'
    /\ StoreRecordSuccess

\* C29: recordSuccess(m) applies the decay, adds exactly 1 to success, sets
\* failure_score to max(0, failure_score - 2.0), sets cooldown_until to 0 and
\* leaves failures as it was; the failure_score after it is strictly lower
\* than before, or 0.
C29_RecordSuccessEffect ==
    [][\A m \in Entries :
          SuccessRecordedFor(m) =>
              /\ Field(model_stats', m, "success") = Field(model_stats, m, "success") + 1
              /\ Field(model_stats', m, "failure_score") =
                     Max(0, Decayed(model_stats, m, now, config) - SuccessBonus)
              /\ "cooldown_until" \in DOMAIN model_stats'[m]
              /\ model_stats'[m]["cooldown_until"] = 0
              /\ Field(model_stats', m, "failures") = Field(model_stats, m, "failures")
              /\ \/ Field(model_stats', m, "failure_score") < Field(model_stats, m, "failure_score")
                 \/ Field(model_stats', m, "failure_score") = 0
              /\ model_stats'[m]["last_updated"] = now
              /\ stats_file' = model_stats']_vars

\* a success right after a rate-limit failure: the cooldown is cleared and
\* the bonus is taken off the score
C29_Witness ==
    \E m \in DOMAIN model_stats :
        /\ Field(model_stats, m, "failures") = 1
        /\ Field(model_stats, m, "success") = 1
        /\ Field(model_stats, m, "failure_score") = PenaltyRateLimit - SuccessBonus
        /\ "cooldown_until" \in DOMAIN model_stats[m]
        /\ model_stats[m]["cooldown_until"] = 0

\* the store has an entry for every configured model and for no other
StoreMatchesConfig(store, cfg) == DOMAIN store = AllModels(cfg)

\* C25: a config update leaves the HealthStore with an entry for every
\* configured model and none for a model no longer configured, and every
\* later step keeps it so, the recording of a success or failure by a
\* request that started before the update included.
C25_StoreFollowsConfig ==
    [][(config' # config \/ StoreMatchesConfig(model_stats, config)) =>
          StoreMatchesConfig(model_stats', config')]_vars

\* C30: recording the success or the failure of an attempt leaves the
\* HealthStore entry of every other model as it was: when X has failed with
\* 429 and Y then succeeds in the same request, X keeps the cooldown_until,
\* failure_score and failures it had right after its failure.
C30_OtherEntriesUntouched ==
    [][(pc \in {"returned", "raised"}) =>
          \A m \in (DOMAIN model_stats) \ {attempt.entry} :
              /\ m \in DOMAIN model_stats'
              /\ model_stats'[m] = model_stats[m]]_vars

\* X was rate limited, Y has just answered in the same request, X is still
\* cooling down with the score of its one failure
C30_Witness ==
    /\ pc = "done"
    /\ result = "response"
    /\ \E x \in (DOMAIN model_stats) \ {attempt.entry} :
          /\ \E i \in 1..Len(trace_events) :
                /\ trace_events[i].stage = "MODEL_FAIL"
                /\ trace_events[i].model = DisplayOf(x)
          /\ AnsweredStatus(x) = 429
          /\ CoolingDown(model_stats, x, now)
          /\ Field(model_stats, x, "failures") = 1
          /\ Field(model_stats, x, "failure_score") = PenaltyRateLimit
    /\ Field(model_stats, attempt.entry, "success") >= 1

\* the concatenation of the content of the data lines of a decoded body
ContentOf(text) == ConsumeLines(text, << >>).content

\* C21: for the openai protocol the returned content is the concatenation,
\* in order, of the content of all data lines of the body, however the
\* bytes of the body are cut into chunks: inside the "data: " prefix, inside
\* a line, or inside a multibyte UTF-8 character.
C21_ContentIndependentOfChunks ==
    stream.at = "returned" => stream.aggregated_content = ContentOf(Decode(stream.body))

\* C21 without the cuts inside a multibyte character: a body cut inside the
\* prefix or inside a line gives the content of the whole body
C21_CutsBetweenCharacters ==
    (/\ stream.at = "returned"
     /\ "U+FFFD" \notin SeqSet(stream.aggregated_content)) =>
        stream.aggregated_content = ContentOf(Decode(stream.body))

\* the caller supplied parameter k with a non-null value
Supplied(k) == k \in DOMAIN payload.request /\ payload.request[k] # "None"

\* C22: in the outbound payload a parameter has the request's value only
\* when the caller supplied it with a non-null value; otherwise the value of
\* model_params[outbound_model] when that defines it; otherwise the value of
\* global_params. A parameter the caller did not supply never overrides a
\* configured default.
C22_MergePrecedence ==
    payload.at = "built" =>
        \A k \in DOMAIN FieldDefaults :
            LET out == payload.final_payload
            IN  /\ Supplied(k) => (k \in DOMAIN out /\ out[k] = payload.request[k])
                /\ (~Supplied(k) /\ k \in DOMAIN payload.model_params) =>
                       (k \in DOMAIN out /\ out[k] = payload.model_params[k])
                /\ (~Supplied(k) /\ k \notin DOMAIN payload.model_params
                       /\ k \in DOMAIN payload.global_params) =>
                       (k \in DOMAIN out /\ out[k] = payload.global_params[k])

\* C22 for temperature alone, a parameter whose field default is None
C22_MergePrecedenceTemperature ==
    payload.at = "built" =>
        LET out == payload.final_payload
            k == "temperature"
        IN  /\ Supplied(k) => (k \in DOMAIN out /\ out[k] = payload.request[k])
            /\ (~Supplied(k) /\ k \in DOMAIN payload.model_params) =>
                   (k \in DOMAIN out /\ out[k] = payload.model_params[k])
            /\ (~Supplied(k) /\ k \notin DOMAIN payload.model_params
                   /\ k \in DOMAIN payload.global_params) =>
                   (k \in DOMAIN out /\ out[k] = payload.global_params[k])

\* the block types of an output message
Blocks(m) == IF m.content = "str" THEN {"text"} ELSE SeqSet(m.content)

\* C23: for every chat message list, the list produced for a v1-messages
\* provider has no two consecutive messages of the same role, and tool
\* results appear only as tool_result blocks inside user messages.
C23_RolesAlternate ==
    anthropic_messages.at = "returned" =>
        LET out == anthropic_messages.out
        IN  /\ \A k \in 1..(Len(out) - 1) : out[k].role # out[k + 1].role
            /\ \A k \in 1..Len(out) :
                  /\ out[k].role \in {"user", "assistant"}
                  /\ "tool_result" \in Blocks(out[k]) => out[k].role = "user"

\* C23 for the lists that have no two assistant messages in a row (system
\* messages aside)
C23_RolesAlternateUnlessAssistantTwice ==
    (/\ anthropic_messages.at = "returned"
     /\ LET ms == SelectSeq(anthropic_messages.openai_messages,
                            LAMBDA m : m.role # "system")
        IN  \A k \in 1..(Len(ms) - 1) :
                ~(ms[k].role = "assistant" /\ ms[k + 1].role = "assistant")) =>
        LET out == anthropic_messages.out
        IN  /\ \A k \in 1..(Len(out) - 1) : out[k].role # out[k + 1].role
            /\ \A k \in 1..Len(out) :
                  "tool_result" \in Blocks(out[k]) => out[k].role = "user"

\* the lines of a sequence that belong to a replayed history
OfHistory(q, h) == SelectSeq(q, LAMBDA l : l \in SeqSet(h))

\* C26: the trace buffer never holds more than its maximum of lines, a full
\* buffer drops its oldest line on append and keeps the others in append
\* order, and a new subscriber is sent the most recent min(replay length,
\* size) buffered lines, in order.
C26_BufferBoundedReplayInOrder ==
    [][(trace_logger.at = "running" /\ trace_logger'.at = "running") =>
          LET t == trace_logger
              u == trace_logger'
          IN  /\ Len(u.buffer) <= BufferMaxlen
              /\ (u.logged # t.logged) =>
                    /\ u.buffer[Len(u.buffer)] = u.logged
                    /\ IF Len(t.buffer) = BufferMaxlen
                       THEN /\ Len(u.buffer) = BufferMaxlen
                            /\ \A k \in 1..(BufferMaxlen - 1) : u.buffer[k] = t.buffer[k + 1]
                       ELSE /\ Len(u.buffer) = Len(t.buffer) + 1
                            /\ \A k \in 1..Len(t.buffer) : u.buffer[k] = t.buffer[k]
              /\ \A ws \in WebSockets :
                    /\ (t.state[ws] = "new" /\ u.state[ws] # "new") =>
                          LET n == IF Len(t.buffer) < HistoryLen THEN Len(t.buffer) ELSE HistoryLen
                          IN  /\ Len(u.history[ws]) = n
                              /\ \A k \in 1..n :
                                    u.history[ws][k] = t.buffer[Len(t.buffer) - n + k]
                    /\ (u.state[ws] = "replaying") =>
                          OfHistory(u.sent[ws], u.history[ws]) \o u.to_replay[ws] = u.history[ws]
                    /\ (u.state[ws] = "listening" /\ ws \notin u.send_failed) =>
                          OfHistory(u.sent[ws], u.history[ws]) = u.history[ws]]_vars

\* C26 happens: the buffer has dropped its oldest line, and a subscriber
\* that connected to a buffer longer than the replay has been sent its
\* whole replay, with a live line sent to it before the replay ended
C26_Witness ==
    /\ trace_logger.at = "running"
    /\ Len(trace_logger.buffer) = BufferMaxlen
    /\ trace_logger.buffer[1] > 1
    /\ \E ws \in WebSockets :
          /\ trace_logger.state[ws] = "listening"
          /\ ws \notin trace_logger.send_failed
          /\ Len(trace_logger.history[ws]) = HistoryLen
          /\ trace_logger.history[ws][1] > 1
          /\ Len(trace_logger.sent[ws]) > HistoryLen
          /\ trace_logger.sent[ws][HistoryLen] \notin SeqSet(trace_logger.history[ws])

\* the tasks of a queue that send to one subscriber
TasksOf(q, ws) == SelectSeq(q, LAMBDA task : task[1] = ws)

\* C27: a subscriber whose send fails, in a broadcast or in the replay, is
\* removed from the subscriber set and is sent no later line, and the other
\* subscribers keep receiving every line.
C27_FailedSubscriberRemoved ==
    [][(trace_logger.at = "running" /\ trace_logger'.at = "running") =>
          LET t == trace_logger
              u == trace_logger'
          IN  /\ \A ws \in u.send_failed :
                    /\ ws \notin SeqSet(u.active_websockets)
                    /\ u.sent[ws] = t.sent[ws]
              /\ (u.send_failed # t.send_failed) =>
                    \A ws \in WebSockets \ u.send_failed :
                        /\ ws \in SeqSet(t.active_websockets) <=>
                              ws \in SeqSet(u.active_websockets)
                        /\ TasksOf(u.tasks, ws) = TasksOf(t.tasks, ws)
              /\ (u.logged # t.logged) =>
                    \A ws \in SeqSet(t.active_websockets) :
                        TasksOf(u.tasks, ws) = Append(TasksOf(t.tasks, ws), <<ws, u.logged>>)]_vars

\* C27 for the sends of a broadcast only: a send of the replay that fails
\* is outside it
C27_FailedBroadcastRemoved ==
    [][(/\ trace_logger.at = "running" /\ trace_logger'.at = "running"
        /\ trace_logger'.tasks # trace_logger.tasks
        /\ trace_logger'.send_failed # trace_logger.send_failed) =>
          LET t == trace_logger
              u == trace_logger'
          IN  /\ \A ws \in u.send_failed \ t.send_failed :
                    /\ ws \notin SeqSet(u.active_websockets)
                    /\ u.sent[ws] = t.sent[ws]
              /\ \A ws \in WebSockets \ u.send_failed :
                    /\ ws \in SeqSet(t.active_websockets) <=>
                          ws \in SeqSet(u.active_websockets)
                    /\ TasksOf(u.tasks, ws) = TasksOf(t.tasks, ws)]_vars

\* the reply that made the attempt in flight fail held a retryable status
\* code and an error keyword
RetryableCodeWithKeyword ==
    LET b == upstream[attempt.entry]
    IN  /\ b # Unobserved
        /\ b.conn = "ok" /\ b.hdr = "prompt"
        /\ b.status \in config.conditions.status_codes
        /\ (BodyKeywords(b.body) \cap config.conditions.error_keywords) # {}

\* C31: each failed attempt appends exactly one MODEL_FAIL event, whose
\* reason is one error kind, and records exactly one failure (failures of
\* the model goes up by exactly 1); when the reply held a retryable status
\* code and an error keyword the kind is the status code's, never the
\* keyword's.
C31_OneKindOneEventOneFailure ==
    [][(pc = "raised") =>
          LET e == trace_events'[Len(trace_events')]
          IN  /\ Len(trace_events') = Len(trace_events) + 1
              /\ SubSeq(trace_events', 1, Len(trace_events)) = trace_events
              /\ e.stage = "MODEL_FAIL"
              /\ e.reason = ClassifyFailure(attempt.outcome.err).reason
              /\ attempt.entry \in DOMAIN model_stats'
              /\ Counter(model_stats', attempt.entry, "failures") =
                    Counter(model_stats, attempt.entry, "failures") + 1
              /\ Counter(model_stats', attempt.entry, "success") =
                    Counter(model_stats, attempt.entry, "success")
              /\ RetryableCodeWithKeyword =>
                    /\ e.reason # ReasonKeyword
                    /\ (attempt.protocol = "openai") => e.reason = ReasonStatus]_vars

\* C31 happens: a reply with a retryable status code and an error keyword
\* in its body has been counted as one failure by status code
C31_Witness ==
    /\ pc = "loop"
    /\ retry_count = 1
    /\ RetryableCodeWithKeyword
    /\ attempt.protocol = "openai"
    /\ trace_events[Len(trace_events)].stage = "MODEL_FAIL"
    /\ trace_events[Len(trace_events)].reason = ReasonStatus
    /\ Counter(model_stats, attempt.entry, "failures") = 1

\* the number of MODEL_FAIL events among the first n trace events
FailsBefore(n) == Cardinality({k \in 1..n : trace_events[k].stage = "MODEL_FAIL"})

\* C32: every trace event of the request carries as retry_count the number
\* of MODEL_FAIL events appended before it; ALL_FAILED carries the number of
\* failed attempts.
C32_RetryCountCountsFailures ==
    /\ \A i \in 1..Len(trace_events) : trace_events[i].retry_count = FailsBefore(i - 1)
    /\ retry_count = FailsBefore(Len(trace_events))
    /\ (result = "all_failed") =>
          /\ trace_events[Len(trace_events)].stage = "ALL_FAILED"
          /\ trace_events[Len(trace_events)].retry_count = retry_count
          /\ retry_count = Len(attempt_errors)

\* C32 happens: a request ended in ALL_FAILED after two failed attempts, the
\* second of which had received its first token
C32_Witness ==
    /\ result = "all_failed"
    /\ retry_count = 2
    /\ \E i \in 1..Len(trace_events) :
          /\ trace_events[i].stage = "FIRST_TOKEN"
          /\ trace_events[i].retry_count = 1

\* the number of attempts among the first k visits of the loop
AttemptsAmong(k) == Cardinality({j \in 1..k : Attemptable(visits[j])})

\* C33: the order of the models is fixed once for the request and every
\* round walks it from its first entry to its last; under the sequential
\* strategy it is the configured order; the loop comes to the next entry
\* only after the attempt of the one before failed or the entry was skipped.
C33_OneOrderForAllRounds ==
    /\ \A k \in 1..Len(visits) :
          /\ visits[k].entry = models[visits[k].pos]
          /\ IF k = 1
             THEN visits[k].round = 0 /\ visits[k].pos = 1
             ELSE \/ /\ visits[k].round = visits[k - 1].round
                     /\ visits[k].pos = visits[k - 1].pos + 1
                  \/ /\ visits[k].round = visits[k - 1].round + 1
                     /\ visits[k].pos = 1
                     /\ visits[k - 1].pos = Len(models)
    /\ \A k \in 1..(Len(visits) - 1) : AttemptsAmong(k) <= retry_count
    /\ (visits # << >> /\ req_config.strategies[level] = "sequential") =>
          models = req_config.models[level]

\* C33 happens: under the sequential strategy the second round has come to
\* the second of two different models, after three failed attempts
C33_Witness ==
    /\ req_config.strategies[level] = "sequential"
    /\ Len(models) = 2
    /\ models[1] # models[2]
    /\ Len(visits) = 4
    /\ visits[4].round = 1
    /\ visits[4].pos = 2
    /\ retry_count >= 3

\* the entries of a list, each as often as the list holds it
Occurrences(list, m) == Cardinality({k \in 1..Len(list) : list[k] = m})

\* C34: under the adaptive strategy every ordering that can be returned is
\* a permutation of the tier's list, and for every model of the list, at
\* every failure score the HealthStore holds, one of the orderings has that
\* model first.
C34_AdaptivePermutesAndStarvesNone ==
    LET list == config.models.t1
        orders == GetSortedModels(list, "adaptive",
                                  RefreshAll(model_stats, list, now, config))
    IN  /\ \A o \in orders :
              /\ Len(o) = Len(list)
              /\ \A m \in Entries : Occurrences(o, m) = Occurrences(list, m)
        /\ \A m \in SeqSet(list) : \E o \in orders : o[1] = m

\* C34 happens: the ordering put first a model whose failure score is the
\* higher one
C34_Witness ==
    /\ pc = "idle"
    /\ Len(models) = 2
    /\ models # config.models.t1
    /\ SeqSet(models) \subseteq DOMAIN model_stats
    /\ FailureScore(models[1]) > PenaltyRateLimit
    /\ FailureScore(models[2]) = 0

\* C35: an entry restored from the file with missing fields behaves as if
\* they were zero or now: recording a success or a failure on it completes
\* (no request dies in the HealthStore), and an attempt whose upstream call
\* returned a reply is never handled as a failed attempt.
C35_MissingFieldsDefault ==
    /\ result # "internal_error"
    /\ (pc = "raised") => ~attempt.outcome.ok
    /\ (pc = "done" /\ result = "response") =>
          /\ Counter(model_stats, attempt.entry, "success") >= 1
          /\ CooldownUntil(attempt.entry) = 0

\* C35 for the files whose entries hold both counters
C35_MissingFieldsDefaultWithCounters ==
    (\A m \in DOMAIN stats_file :
        {"failures", "success"} \subseteq DOMAIN stats_file[m] \/ pc = "idle") =>
        /\ result # "internal_error"
        /\ (pc = "raised") => ~attempt.outcome.ok

\* C36: with several requests in flight no recorded success or failure is
\* lost: after any interleaving, the success and failures counters of a
\* model are the numbers of successful and of failed attempts completed
\* on it.
C36_CountersMatchAttempts ==
    (inflight # NoCall) =>
        \A m \in Entries :
            /\ Counter(model_stats, m, "success") = inflight.succeeded[m]
            /\ Counter(model_stats, m, "failures") = inflight.failed[m]

\* C36 without the attempts that are recorded as a success and then fail:
\* no increment of either counter is lost
C36_NoIncrementLost ==
    (inflight # NoCall) =>
        \A m \in Entries :
            /\ Counter(model_stats, m, "success") >= inflight.succeeded[m]
            /\ Counter(model_stats, m, "success") <= inflight.succeeded[m] + inflight.failed[m]
            /\ Counter(model_stats, m, "failures") = inflight.failed[m]

\* a step that records a failure, and no success, on the model
FailureRecordedOn(m) ==
    /\ m \in DOMAIN model_stats
    /\ m \in DOMAIN model_stats'
    /\ Counter(model_stats', m, "failures") = Counter(model_stats, m, "failures") + 1
    /\ Counter(model_stats', m, "success") = Counter(model_stats, m, "success")

\* C37: a recorded failure never moves the cooldown_until of a model to an
\* earlier instant, whatever cooldown the failure carries.
C37_FailureNeverShortensCooldown ==
    [][\A m \in Entries :
          FailureRecordedOn(m) =>
              DictGet(model_stats'[m], "cooldown_until", 0) >=
                  DictGet(model_stats[m], "cooldown_until", 0)]_vars

\* C37 for the failures that carry no cooldown: they leave cooldown_until
\* as it is
C37_NoCooldownKeepsCooldown ==
    [][\A m \in Entries :
          (/\ FailureRecordedOn(m)
           /\ DictGet(model_stats'[m], "cooldown_until", 0) <= now') =>
              DictGet(model_stats'[m], "cooldown_until", 0) =
                  DictGet(model_stats[m], "cooldown_until", 0)]_vars

\* _call_upstream has just returned or raised
UpstreamJustEnded ==
    \/ pc = "returned"
    \/ pc = "raised" /\ ~attempt.outcome.ok

\* C38: a request works on the configuration it read on arrival: its model
\* list, rounds and timeouts, and the retry conditions applied to each of
\* its attempts, are those of that snapshot even when the configuration is
\* updated between two attempts.
C38_OneSnapshotPerRequest ==
    /\ (pc \in {"loop", "calling", "returned", "raised"}) =>
          /\ models = req_config.models[level]
          /\ max_rounds = req_config.rounds[level]
    /\ UpstreamJustEnded =>
          attempt.outcome \in CallUpstream(attempt.protocol, upstream[attempt.entry],
                                           req_config.conditions, call_start_time,
                                           req_config.connect[level],
                                           req_config.generation[level])

\* C38 for the model list, the rounds and the timeouts only
C38_ListRoundsTimeoutsFromSnapshot ==
    /\ (pc \in {"loop", "calling", "returned", "raised"}) =>
          /\ models = req_config.models[level]
          /\ max_rounds = req_config.rounds[level]
    /\ UpstreamJustEnded =>
          \E cond \in {DefaultConditions, AdminConditions} :
              attempt.outcome \in CallUpstream(attempt.protocol, upstream[attempt.entry],
                                               cond, call_start_time,
                                               req_config.connect[level],
                                               req_config.generation[level])


\* C39: every upstream streaming response opened by an attempt is closed (its
\* stream context is exited) before the attempt returns to the orchestrator,
\* on the success path as well as on the error and timeout paths.
C39_StreamContextExited ==
    UpstreamJustEnded => attempt.outcome.ctx # "entered"

\* C39 for the attempts that end with an exception
C39_StreamContextExitedOnError ==
    (UpstreamJustEnded /\ ~attempt.outcome.ok) => attempt.outcome.ctx # "entered"


\* rounds x |models[tier]| of the request's configuration
AttemptBound == req_config.rounds[level] * Len(req_config.models[level])

AttemptsWithinBound ==
    /\ (pc # "idle") =>
          /\ AttemptsAmong(Len(visits)) <= AttemptBound
          /\ FailsBefore(Len(trace_events)) <= AttemptBound
          /\ retry_count <= AttemptBound
    /\ (pc = "done") => result \in {"response", "config_error", "all_failed"}

=============================================================================
